---- MODULE Spec2Model ----
(***************************************************************************)
(* OAuth 2.0 authorization server core of kgang/superdynamic:              *)
(* dynamic client registration, the PKCE authorization-code exchange, the  *)
(* refresh grant and the in-memory storage they share.                     *)
(*                                                                         *)
(* Python values are modelled as follows.  Identifiers (client ids, codes, *)
(* refresh tokens, redirect URIs, verifier/challenge strings) are positive *)
(* integers; None and the empty string, which Python's `not x` treats      *)
(* alike, are 0.  Scope strings are TLA+ strings, "" being the falsy one.  *)
(* datetime values are integer clock ticks.                                *)
(***************************************************************************)
EXTENDS Integers, FiniteSets, Sequences, Bags, TLC

(* ------------------------------ bounds -------------------------------- *)

\* number of clients generate_client_id can name
MaxClients == 2
\* number of authorization codes generate_authorization_code can name
MaxCodes == 1
\* number of refresh tokens generate_refresh_token can name
MaxTokens == 1
\* number of token requests that can be in flight at the same time
NumHandlers == 2
\* last value of the clock
MaxTime == 2
\* largest configured authorization-code lifetime, in ticks
MaxCodeTtl == 1
\* size of the universe of verifier / challenge strings
NumStrings == 4

\* the longest string whose comparison is timed
MaxLen == 3

\* how many codes the authorize step issues where only issuance is followed
MaxIssued == 2

(* --------------------------- configuration ---------------------------- *)

SERVER_URL == "http://localhost:8000"
JWT_SECRET_KEY == "dev-secret-key-change-in-production"
JWT_ALGORITHM == "HS256"
\* lifetimes in clock ticks (the defaults are 60 minutes and 30 days)
JWT_ACCESS_TOKEN_EXPIRE == 1
OAUTH_REFRESH_TOKEN_EXPIRE == 1

MOCK_USER == "mock_user_123"
DEFAULT_SCOPE == "mcp:tools:read mcp:tools:execute"

(* ------------------------------ domains ------------------------------- *)

None == 0

ClientIds == 1..MaxClients
CodeIds == 1..MaxCodes
TokenIds == 1..MaxTokens
Strings == 1..NumStrings

\* redirect URIs that occur in requests
Uris == {1, 2}
\* verifier strings that occur in token requests
RequestStrings == {1, 2}
\* registration requests: the redirect_uris list and the scope ("" absent)
Registrations ==
    {[redirect_uris |-> {}, scope |-> ""],
     [redirect_uris |-> {1}, scope |-> ""],
     [redirect_uris |-> {1, 2}, scope |-> "s1"]}
\* the well-formed parameters that occur in authorization requests: the
\* redirect URI, the PKCE challenge and method, the scope ("" absent)
Consents ==
    {[redirect_uri |-> 1, code_challenge |-> 2,
      code_challenge_method |-> "S256", scope |-> ""],
     [redirect_uri |-> 2, code_challenge |-> 2,
      code_challenge_method |-> "plain", scope |-> "s2"]}

\* code_challenge_method values: the two of CodeChallengeMethod and another
MethodNames == {"S256", "plain", "S512"}

\* the secret generate_client_secret gives to client c
SecretOf(c) == c

(* ------------------------------- state -------------------------------- *)

VARIABLES
    now,                  \* datetime.utcnow()
    settings,             \* the configured lifetimes
    clients,              \* storage.clients
    authorization_codes,  \* storage.authorization_codes
    refresh_tokens,       \* storage.refresh_tokens
    fresh,                \* how many ids each random generator has produced
    req,                  \* the token requests being handled
    response,             \* the token endpoint's latest response
    redeemed,             \* per code, the token responses returned for it
    pkce,                 \* one evaluation of the PKCE functions
    bearer,               \* one access token, minted and verified
    mcp,                  \* the MCP endpoints' latest request and response
    timing,               \* one string comparison and the work it took
    OAuthCallbackHandler, \* the client's callback handler: its class variables
    flows,                \* the client's MCPOAuthClient.authorize calls
    sweep                 \* a cleanup_expired_codes call: its position and locals

vars == <<now, settings, clients, authorization_codes, refresh_tokens,
          fresh, req, response, redeemed, pkce, bearer, mcp, timing,
          OAuthCallbackHandler, flows, sweep>>

\* dict assignment d[k] = v
Put(d, k, v) == [x \in DOMAIN d \cup {k} |-> IF x = k THEN v ELSE d[x]]

\* a dict comprehension keeping the keys in keep
Restrict(d, keep) == [x \in keep |-> d[x]]

EmptyDict == [x \in {} |-> None]

(* ------------------------------- PKCE --------------------------------- *)

\* base64url(sha256(verifier)) with the padding stripped: injective on the
\* string universe, and no string is its own digest
Sha256B64(v) == (v % NumStrings) + 1

\* the ValueError generate_code_challenge raises
ValueError == -1

\* generate_code_challenge taking every other method for plain
generate_code_challenge_defaulting(code_verifier, method) ==
    IF method = "S256" THEN Sha256B64(code_verifier) ELSE code_verifier

generate_code_challenge(code_verifier, method) ==
    IF method = "S256" THEN Sha256B64(code_verifier)
    ELSE IF method = "plain" THEN code_verifier
    ELSE ValueError

\* verify_code_challenge without the comparison with the stored challenge
verify_code_challenge_uncompared(code_verifier, code_challenge, method) ==
    generate_code_challenge(code_verifier, method) # ValueError

verify_code_challenge(code_verifier, code_challenge, method) ==
    LET expected_challenge == generate_code_challenge(code_verifier, method)
    IN  IF expected_challenge = ValueError
        THEN FALSE
        ELSE expected_challenge = code_challenge

\* CodeChallengeMethod(value) succeeds
CodeChallengeMethod(value) == value \in {"S256", "plain"}

(* ------------------------------ records ------------------------------- *)

RegisteredClient(client_id, client_secret, redirect_uris, scope) ==
    [client_id |-> client_id, client_secret |-> client_secret,
     redirect_uris |-> redirect_uris, scope |-> scope]

AuthorizationCode(code, client_id, redirect_uri, scope, code_challenge, code_challenge_method, user_id, expires_at) ==
    [code |-> code, client_id |-> client_id, redirect_uri |-> redirect_uri,
     scope |-> scope, code_challenge |-> code_challenge,
     code_challenge_method |-> code_challenge_method, user_id |-> user_id,
     expires_at |-> expires_at, used |-> FALSE]

RefreshToken(token, client_id, user_id, scope, expires_at) ==
    [token |-> token, client_id |-> client_id, user_id |-> user_id,
     scope |-> scope, expires_at |-> expires_at, revoked |-> FALSE]

\* what the Optional-returning lookups return for None
NoClient == RegisteredClient(None, None, {}, "")
NoAuthCode == AuthorizationCode(None, None, None, "", None, "", "", 0)
NoRefreshToken == RefreshToken(None, None, "", "", 0)

\* the absent access token of an error response
NoAccessToken ==
    [sub |-> "", client_id |-> None, scope |-> "", exp |-> 0, iat |-> 0,
     iss |-> "", aud |-> "", key |-> "", alg |-> ""]

\* raise HTTPException(status_code, detail)
HTTPException(status_code, detail) ==
    [status |-> status_code, detail |-> detail, access_token |-> NoAccessToken,
     token_type |-> "", expires_in |-> 0, refresh_token |-> None, scope |-> ""]

TokenResponse(access_token, expires_in, refresh_token, scope) ==
    [status |-> 200, detail |-> "", access_token |-> access_token,
     token_type |-> "Bearer", expires_in |-> expires_in,
     refresh_token |-> refresh_token, scope |-> scope]

(* ------------------------------ storage ------------------------------- *)

get_client(client_id) ==
    IF client_id \in DOMAIN clients THEN clients[client_id] ELSE NoClient

\* get_authorization_code without the expiry check
get_authorization_code_ignoring_expiry(code) ==
    IF code \notin DOMAIN authorization_codes THEN NoAuthCode
    ELSE IF authorization_codes[code].used THEN NoAuthCode
    ELSE authorization_codes[code]

\* get_authorization_code without the used check
get_authorization_code_ignoring_used(code) ==
    IF code \notin DOMAIN authorization_codes THEN NoAuthCode
    ELSE IF now > authorization_codes[code].expires_at THEN NoAuthCode
    ELSE authorization_codes[code]

get_authorization_code(code) ==
    IF code \notin DOMAIN authorization_codes THEN NoAuthCode
    ELSE IF now > authorization_codes[code].expires_at THEN NoAuthCode
    ELSE IF authorization_codes[code].used THEN NoAuthCode
    ELSE authorization_codes[code]

\* mark_code_as_used that also pushes the expiry of the code back
mark_code_as_used_extending(code) ==
    IF code \notin DOMAIN authorization_codes
    THEN [ok |-> FALSE, codes |-> authorization_codes]
    ELSE IF authorization_codes[code].used
    THEN [ok |-> FALSE, codes |-> authorization_codes]
    ELSE IF now > authorization_codes[code].expires_at
    THEN [ok |-> FALSE, codes |-> authorization_codes]
    ELSE [ok |-> TRUE,
          codes |-> [authorization_codes EXCEPT ![code].used = TRUE,
                                                ![code].expires_at = @ + 1]]

\* mark_code_as_used without the expiry check
mark_code_as_used_ignoring_expiry(code) ==
    IF code \notin DOMAIN authorization_codes
    THEN [ok |-> FALSE, codes |-> authorization_codes]
    ELSE IF authorization_codes[code].used
    THEN [ok |-> FALSE, codes |-> authorization_codes]
    ELSE [ok |-> TRUE,
          codes |-> [authorization_codes EXCEPT ![code].used = TRUE]]

\* mark_code_as_used without the used check
mark_code_as_used_ignoring_used(code) ==
    IF code \notin DOMAIN authorization_codes
    THEN [ok |-> FALSE, codes |-> authorization_codes]
    ELSE IF now > authorization_codes[code].expires_at
    THEN [ok |-> FALSE, codes |-> authorization_codes]
    ELSE [ok |-> TRUE,
          codes |-> [authorization_codes EXCEPT ![code].used = TRUE]]

\* the value mark_code_as_used returns (ok) and the store it leaves (codes)
mark_code_as_used(code) ==
    IF code \notin DOMAIN authorization_codes
    THEN [ok |-> FALSE, codes |-> authorization_codes]
    ELSE IF authorization_codes[code].used
    THEN [ok |-> FALSE, codes |-> authorization_codes]
    ELSE IF now > authorization_codes[code].expires_at
    THEN [ok |-> FALSE, codes |-> authorization_codes]
    ELSE [ok |-> TRUE,
          codes |-> [authorization_codes EXCEPT ![code].used = TRUE]]

\* get_refresh_token without the revoked check
get_refresh_token_ignoring_revoked(token) ==
    IF token \notin DOMAIN refresh_tokens THEN NoRefreshToken
    ELSE IF now > refresh_tokens[token].expires_at THEN NoRefreshToken
    ELSE refresh_tokens[token]

get_refresh_token(token) ==
    IF token \notin DOMAIN refresh_tokens THEN NoRefreshToken
    ELSE IF now > refresh_tokens[token].expires_at THEN NoRefreshToken
    ELSE IF refresh_tokens[token].revoked THEN NoRefreshToken
    ELSE refresh_tokens[token]

\* a revocation that flips the flag instead of setting it
revoked_store_toggling(token) ==
    IF token \in DOMAIN refresh_tokens
    THEN [refresh_tokens EXCEPT ![token].revoked = ~@]
    ELSE refresh_tokens

\* the store revoke_refresh_token(token) leaves
revoked_store(token) ==
    IF token \in DOMAIN refresh_tokens
    THEN [refresh_tokens EXCEPT ![token].revoked = TRUE]
    ELSE refresh_tokens

\* the stores the cleanup comprehensions build
unexpired_codes ==
    Restrict(authorization_codes,
             {c \in DOMAIN authorization_codes :
                 authorization_codes[c].expires_at > now})

unexpired_tokens ==
    Restrict(refresh_tokens,
             {t \in DOMAIN refresh_tokens : refresh_tokens[t].expires_at > now})

(* ---------------------------- access tokens --------------------------- *)

\* jwt.encode(claims, key, algorithm): the claims and what signed them
\* the claims dict and jwt.encode: iat is the clock as it reads now, the
\* token is signed with key under alg
access_token_claims(client_id, user_id, scope, expires_at) ==
    [sub |-> user_id, client_id |-> client_id,
     scope |-> IF scope = "" THEN "" ELSE scope,
     exp |-> expires_at, iat |-> now,
     iss |-> SERVER_URL, aud |-> SERVER_URL,
     key |-> JWT_SECRET_KEY, alg |-> JWT_ALGORITHM]

\* create_access_token within one reading of the clock
create_access_token(client_id, user_id, scope) ==
    [token |-> access_token_claims(client_id, user_id, scope,
                                   now + JWT_ACCESS_TOKEN_EXPIRE),
     expires_in |-> JWT_ACCESS_TOKEN_EXPIRE]

\* the JWTError jwt.decode raises for the token, "" when it raises none:
\* the signature under JWT_SECRET_KEY and JWT_ALGORITHM, then the claims,
\* exp before aud; the token is expired when exp < now
jwt_decode_error(token) ==
    IF token.key # JWT_SECRET_KEY \/ token.alg # JWT_ALGORITHM
    THEN "Signature verification failed."
    ELSE IF token.exp < now THEN "Signature has expired."
    ELSE IF token.aud # SERVER_URL THEN "Invalid audience"
    ELSE ""

\* the payload jwt.decode returns
Payload(token) ==
    [sub |-> token.sub, client_id |-> token.client_id, scope |-> token.scope,
     exp |-> token.exp, iat |-> token.iat, iss |-> token.iss, aud |-> token.aud]

NoPayload == Payload(NoAccessToken)

\* a verification that also asks the store for a live refresh token of the
\* token's client
verify_access_token_asking_store(token) ==
    IF jwt_decode_error(token) = ""
       /\ \E t \in DOMAIN refresh_tokens :
              /\ refresh_tokens[t].client_id = token.client_id
              /\ ~refresh_tokens[t].revoked
    THEN [status |-> 200, detail |-> "", headers |-> "",
          payload |-> Payload(token)]
    ELSE [status |-> 401,
          detail |-> "Invalid token: revoked",
          headers |-> "WWW-Authenticate: Bearer", payload |-> NoPayload]

\* verify_access_token: the payload it returns (status 200) or the
\* HTTPException it raises
verify_access_token(token) ==
    IF jwt_decode_error(token) = ""
    THEN [status |-> 200, detail |-> "", headers |-> "",
          payload |-> Payload(token)]
    ELSE [status |-> 401,
          detail |-> "Invalid token: " \o jwt_decode_error(token),
          headers |-> "WWW-Authenticate: Bearer", payload |-> NoPayload]

NoVerdict == [status |-> 0, detail |-> "", headers |-> "", payload |-> NoPayload]

(* ------------------------------ requests ------------------------------ *)

\* the form parameters of a token request
TokenRequest(grant_type, code, redirect_uri, code_verifier, refresh_token, client_id, client_secret) ==
    [grant_type |-> grant_type, code |-> code, redirect_uri |-> redirect_uri,
     code_verifier |-> code_verifier, refresh_token |-> refresh_token,
     client_id |-> client_id, client_secret |-> client_secret]

NoRequest == TokenRequest("", None, None, None, None, None, None)

\* a handler at mark_code_as_used ("mark") or past it ("mint"), with its
\* request and the auth_code it holds
Handler(pc, form, auth_code) == [pc |-> pc, form |-> form, auth_code |-> auth_code]

\* the handlers in flight
InFlight == BagToSet(req)

\* handler r goes on as handler r2; handler r returns
Continue(r, r2) == (req (-) SetToBag({r})) (+) SetToBag({r2})
Return(r) == req (-) SetToBag({r})

\* how many handlers have marked code used and not yet answered
Minting(code) ==
    BagCardinality([r \in {x \in InFlight : x.pc = "mint" /\ x.form.code = code}
                       |-> CopiesIn(r, req)])

\* a response as the caller of the token endpoint sees it, with the grant
\* type of the request it answers
Sent(form, body) == [grant_type |-> form.grant_type, body |-> body]

\* one evaluation of the PKCE functions: a challenge is derived from
\* code_verifier, then code_verifier and other_verifier are verified against it
Pkce(pc, code_verifier, other_verifier, method) ==
    [pc |-> pc, code_verifier |-> code_verifier,
     other_verifier |-> other_verifier, method |-> method,
     code_challenge |-> None, verified |-> FALSE, other_verified |-> FALSE]

NoPkce == Pkce("off", None, None, "")

\* an access token through create_access_token and verify_access_token: the
\* expiry computed from the first reading of the clock, the token, the
\* lifetime reported and the outcome of the verification
Bearer(pc, expires_at, token, expires_in, verdict) ==
    [pc |-> pc, expires_at |-> expires_at, token |-> token,
     expires_in |-> expires_in, verdict |-> verdict]

NoBearer == Bearer("off", 0, NoAccessToken, 0, NoVerdict)

\* an Authorization header, by the parts authorization.split() gives; the
\* header that is absent
Header(parts) == [present |-> TRUE, parts |-> parts]
NoHeader == [present |-> FALSE, parts |-> <<>>]

\* an MCP request and its response: the endpoint, the Authorization header,
\* the HTTP status, headers and detail, the JSON-RPC error code (0: a
\* result) and what the handler ran
Mcp(method, authorization, status, headers, detail, error, executed) ==
    [method |-> method, authorization |-> authorization, status |-> status,
     headers |-> headers, detail |-> detail, error |-> error,
     executed |-> executed]

NoMcp == Mcp("", NoHeader, 0, "", "", 0, "")

\* a comparison: where it is made, the stored value, the value the request
\* supplied, the outcome and the characters examined
Timing(site, stored, supplied, equal, steps) ==
    [site |-> site, stored |-> stored, supplied |-> supplied,
     equal |-> equal, steps |-> steps]

NoTiming == Timing("", <<>>, <<>>, FALSE, 0)

\* the authorize calls in progress in the client process, and the codes a
\* callback may carry: one made for each flow and one made for nobody here
ClientFlows == {1, 2}
CallbackCodes == {1, 2, 3}

\* the state the authorization server sends back with a code: that of the
\* authorization request the code was issued to; a flow's state is its
\* number
StateOf(code) == code

\* OAuthCallbackHandler's class variables
Callback(authorization_code, state, error) ==
    [authorization_code |-> authorization_code, state |-> state,
     error |-> error]

NoCallback == Callback(None, None, None)

\* one authorize call: where it is, the code its callback server received
\* last, its locals authorization_code and returned_state, and the code it
\* sent to the token endpoint
Flow(pc, received, authorization_code, returned_state, exchanged) ==
    [pc |-> pc, received |-> received,
     authorization_code |-> authorization_code,
     returned_state |-> returned_state, exchanged |-> exchanged]

NoFlows == [f \in ClientFlows |-> Flow("idle", None, None, None, None)]

\* a cleanup_expired_codes call: where it stands, the clock value it read and
\* the dict it iterates over or has built
Sweep(pc, read_at, codes) == [pc |-> pc, now |-> read_at, codes |-> codes]

NoSweep == Sweep("idle", 0, EmptyDict)

Init ==
    /\ now = 0
    /\ settings \in [OAUTH_AUTHORIZATION_CODE_EXPIRE : 0..MaxCodeTtl]
    /\ clients = EmptyDict
    /\ authorization_codes = EmptyDict
    /\ refresh_tokens = EmptyDict
    /\ fresh = [client |-> 0, code |-> 0, token |-> 0]
    /\ req = EmptyBag
    /\ response = Sent(NoRequest, HTTPException(0, ""))
    /\ redeemed = [c \in CodeIds |-> 0]
    /\ pkce = NoPkce
    /\ bearer = NoBearer
    /\ mcp = NoMcp
    /\ timing = NoTiming
    /\ OAuthCallbackHandler = NoCallback
    /\ flows = NoFlows
    /\ sweep = NoSweep

(* ------------------------------- clock -------------------------------- *)

Tick ==
    /\ now < MaxTime
    /\ now' = now + 1
    /\ UNCHANGED <<settings, clients, authorization_codes, refresh_tokens,
                   fresh, req, response, redeemed, pkce, bearer, mcp, timing,
                   OAuthCallbackHandler, flows, sweep>>

(* --------------------------- POST /oauth/register --------------------- *)

\* a validation that takes any list of redirect URIs
register_client_error_accepting_empty(redirect_uris) == ""

\* the validation of the registration request: the detail of the 400
\* HTTPException raised, "" when none is
register_client_error(redirect_uris) ==
    IF redirect_uris = {} \/ Cardinality(redirect_uris) = 0
    THEN "redirect_uris is required and must not be empty"
    ELSE ""

\* the registration that stores every client under one client_id
register_client_overwriting(redirect_uris, scope) ==
    /\ fresh.client < MaxClients
    /\ IF register_client_error(redirect_uris) # ""
       THEN UNCHANGED <<clients, fresh>>
       ELSE LET client_id == 1
                client == RegisteredClient(
                              client_id, SecretOf(client_id), redirect_uris,
                              IF scope = "" THEN DEFAULT_SCOPE ELSE scope)
            IN  /\ clients' = Put(clients, client_id, client)
                /\ fresh' = [fresh EXCEPT !.client = fresh.client + 1]
    /\ UNCHANGED <<now, settings, authorization_codes, refresh_tokens, req,
                   response, redeemed, pkce, bearer, mcp, timing,
                   OAuthCallbackHandler, flows, sweep>>

register_client(redirect_uris, scope) ==
    /\ fresh.client < MaxClients
    /\ IF register_client_error(redirect_uris) # ""
       THEN UNCHANGED <<clients, fresh>>
       ELSE LET client_id == fresh.client + 1
                client == RegisteredClient(
                              client_id, SecretOf(client_id), redirect_uris,
                              IF scope = "" THEN DEFAULT_SCOPE ELSE scope)
            IN  /\ clients' = Put(clients, client_id, client)
                /\ fresh' = [fresh EXCEPT !.client = client_id]
    /\ UNCHANGED <<now, settings, authorization_codes, refresh_tokens, req,
                   response, redeemed, pkce, bearer, mcp, timing,
                   OAuthCallbackHandler, flows, sweep>>

(* --------------------------- GET /oauth/authorize --------------------- *)

\* the checks of the authorize step without the one of the redirect URI
authorize_error_without_redirect(response_type, client_id, redirect_uri, code_challenge, code_challenge_method) ==
    IF response_type # "code"
    THEN "Unsupported response_type. Only 'code' is supported."
    ELSE IF get_client(client_id) = NoClient THEN "Invalid client_id"
    ELSE IF code_challenge = None THEN "code_challenge is required"
    ELSE IF ~CodeChallengeMethod(code_challenge_method)
    THEN "Unsupported code_challenge_method"
    ELSE ""

\* the checks of the authorize step, in their order: the detail of the 400
\* HTTPException raised, "" when none is
authorize_error(response_type, client_id, redirect_uri, code_challenge, code_challenge_method) ==
    IF response_type # "code"
    THEN "Unsupported response_type. Only 'code' is supported."
    ELSE IF get_client(client_id) = NoClient THEN "Invalid client_id"
    ELSE IF redirect_uri \notin get_client(client_id).redirect_uris
    THEN "Invalid redirect_uri"
    ELSE IF code_challenge = None THEN "code_challenge is required"
    ELSE IF ~CodeChallengeMethod(code_challenge_method)
    THEN "Unsupported code_challenge_method"
    ELSE ""

\* the request passes every check of the authorize step
authorize_accepts(response_type, client_id, redirect_uri, code_challenge, code_challenge_method) ==
    authorize_error(response_type, client_id, redirect_uri, code_challenge,
                    code_challenge_method) = ""

authorize_within(limit, response_type, client_id, redirect_uri, code_challenge, code_challenge_method, scope) ==
    /\ fresh.code < limit
    /\ IF authorize_accepts(response_type, client_id, redirect_uri,
                            code_challenge, code_challenge_method)
       THEN LET code == fresh.code + 1
                auth_code == AuthorizationCode(
                    code, client_id, redirect_uri,
                    IF scope = "" THEN get_client(client_id).scope ELSE scope,
                    code_challenge, code_challenge_method, MOCK_USER,
                    now + settings.OAUTH_AUTHORIZATION_CODE_EXPIRE)
            IN  /\ authorization_codes' = Put(authorization_codes, code, auth_code)
                /\ fresh' = [fresh EXCEPT !.code = code]
       ELSE UNCHANGED <<authorization_codes, fresh>>
    /\ UNCHANGED <<now, settings, clients, refresh_tokens, req, response,
                   redeemed, pkce, bearer, mcp, timing,
                   OAuthCallbackHandler, flows, sweep>>

\* GET /authorize while fewer than MaxCodes codes have been issued
authorize(response_type, client_id, redirect_uri, code_challenge, code_challenge_method, scope) ==
    authorize_within(MaxCodes, response_type, client_id, redirect_uri,
                     code_challenge, code_challenge_method, scope)

(* ---------------------------- POST /oauth/token ----------------------- *)

\* the client validation without the comparison of the secret
client_error_ignoring_secret(client_id, client_secret) ==
    IF get_client(client_id) = NoClient THEN "Invalid client credentials"
    ELSE ""

\* client validation: the client is known and a provided secret matches
client_error(client_id, client_secret) ==
    IF get_client(client_id) = NoClient THEN "Invalid client credentials"
    ELSE IF client_secret # None /\ get_client(client_id).client_secret # client_secret
    THEN "Invalid client credentials"
    ELSE ""

\* the checks without the PKCE verification
code_grant_error_without_pkce(auth_code, client_id, redirect_uri, code_verifier) ==
    IF auth_code = NoAuthCode THEN "Invalid or expired authorization code"
    ELSE IF auth_code.client_id # client_id
    THEN "Authorization code was issued to different client"
    ELSE IF auth_code.redirect_uri # redirect_uri THEN "Redirect URI mismatch"
    ELSE ""

\* the checks without the redirect_uri comparison
code_grant_error_without_redirect(auth_code, client_id, redirect_uri, code_verifier) ==
    IF auth_code = NoAuthCode THEN "Invalid or expired authorization code"
    ELSE IF auth_code.client_id # client_id
    THEN "Authorization code was issued to different client"
    ELSE IF ~verify_code_challenge(code_verifier, auth_code.code_challenge,
                                   auth_code.code_challenge_method)
    THEN "Invalid code_verifier"
    ELSE ""

\* the checks between get_authorization_code and mark_code_as_used: the
\* detail of the HTTPException raised, "" when none is
code_grant_error(auth_code, client_id, redirect_uri, code_verifier) ==
    IF auth_code = NoAuthCode THEN "Invalid or expired authorization code"
    ELSE IF auth_code.client_id # client_id
    THEN "Authorization code was issued to different client"
    ELSE IF auth_code.redirect_uri # redirect_uri THEN "Redirect URI mismatch"
    ELSE IF ~verify_code_challenge(code_verifier, auth_code.code_challenge,
                                   auth_code.code_challenge_method)
    THEN "Invalid code_verifier"
    ELSE ""

\* the refresh_token grant telling a revoked token from an unknown one
refresh_grant_naming_revoked(refresh_token, client_id) ==
    LET refresh_token_obj == get_refresh_token(refresh_token)
        access == create_access_token(client_id, refresh_token_obj.user_id,
                                      refresh_token_obj.scope)
    IN  IF refresh_token_obj = NoRefreshToken
        THEN IF refresh_token \in DOMAIN refresh_tokens
                /\ refresh_tokens[refresh_token].revoked
             THEN HTTPException(400, "Refresh token revoked")
             ELSE HTTPException(400, "Invalid or expired refresh token")
        ELSE IF refresh_token_obj.client_id # client_id
        THEN HTTPException(400, "Refresh token was issued to different client")
        ELSE TokenResponse(access.token, access.expires_in, refresh_token,
                           refresh_token_obj.scope)

\* the refresh_token grant minting for the scope of the client's request,
\* which carries none
refresh_grant_without_scope(refresh_token, client_id) ==
    LET refresh_token_obj == get_refresh_token(refresh_token)
        access == create_access_token(client_id, refresh_token_obj.user_id, "")
    IN  IF refresh_token_obj = NoRefreshToken
        THEN HTTPException(400, "Invalid or expired refresh token")
        ELSE IF refresh_token_obj.client_id # client_id
        THEN HTTPException(400, "Refresh token was issued to different client")
        ELSE TokenResponse(access.token, access.expires_in, refresh_token, "")

\* the refresh grant that asks no client of the token
refresh_grant_unbound(refresh_token, client_id) ==
    LET refresh_token_obj == get_refresh_token(refresh_token)
        access == create_access_token(client_id, refresh_token_obj.user_id,
                                      refresh_token_obj.scope)
    IN  IF refresh_token_obj = NoRefreshToken
        THEN HTTPException(400, "Invalid or expired refresh token")
        ELSE TokenResponse(access.token, access.expires_in, refresh_token,
                           refresh_token_obj.scope)

\* the refresh_token grant after the parameter check: its response
refresh_grant(refresh_token, client_id) ==
    LET refresh_token_obj == get_refresh_token(refresh_token)
        access == create_access_token(client_id, refresh_token_obj.user_id,
                                      refresh_token_obj.scope)
    IN  IF refresh_token_obj = NoRefreshToken
        THEN HTTPException(400, "Invalid or expired refresh token")
        ELSE IF refresh_token_obj.client_id # client_id
        THEN HTTPException(400, "Refresh token was issued to different client")
        ELSE TokenResponse(access.token, access.expires_in, refresh_token,
                           refresh_token_obj.scope)

\* the handler taking every other grant_type for a refresh
token_endpoint_defaulting(form) ==
    IF client_error(form.client_id, form.client_secret) # ""
    THEN HTTPException(401, client_error(form.client_id, form.client_secret))
    ELSE IF form.grant_type = "authorization_code"
    THEN IF form.code = None \/ form.redirect_uri = None \/ form.code_verifier = None
         THEN HTTPException(400, "code, redirect_uri, and code_verifier are required")
         ELSE HTTPException(
                  IF code_grant_error(get_authorization_code(form.code),
                         form.client_id, form.redirect_uri, form.code_verifier) = ""
                  THEN 0 ELSE 400,
                  code_grant_error(get_authorization_code(form.code),
                      form.client_id, form.redirect_uri, form.code_verifier))
    ELSE IF TRUE
    THEN IF form.refresh_token = None
         THEN HTTPException(400, "refresh_token is required")
         ELSE refresh_grant(form.refresh_token, form.client_id)
    ELSE HTTPException(400, "Unsupported grant_type")

\* what the handler raises or returns before it reaches mark_code_as_used:
\* status 0 stands for the authorization_code grant going on to it
token_endpoint(form) ==
    IF client_error(form.client_id, form.client_secret) # ""
    THEN HTTPException(401, client_error(form.client_id, form.client_secret))
    ELSE IF form.grant_type = "authorization_code"
    THEN IF form.code = None \/ form.redirect_uri = None \/ form.code_verifier = None
         THEN HTTPException(400, "code, redirect_uri, and code_verifier are required")
         ELSE HTTPException(
                  IF code_grant_error(get_authorization_code(form.code),
                         form.client_id, form.redirect_uri, form.code_verifier) = ""
                  THEN 0 ELSE 400,
                  code_grant_error(get_authorization_code(form.code),
                      form.client_id, form.redirect_uri, form.code_verifier))
    ELSE IF form.grant_type = "refresh_token"
    THEN IF form.refresh_token = None
         THEN HTTPException(400, "refresh_token is required")
         ELSE refresh_grant(form.refresh_token, form.client_id)
    ELSE HTTPException(400, "Unsupported grant_type: " \o form.grant_type)

\* the handler that spends the code of a request failing a binding check
token_request_burning(form) ==
    /\ BagCardinality(req) < NumHandlers
    /\ IF token_endpoint(form).status = 0
       THEN /\ req' = req (+) SetToBag({Handler("mark", form,
                          get_authorization_code(form.code))})
            /\ UNCHANGED <<response, authorization_codes>>
       ELSE /\ response' = Sent(form, token_endpoint(form))
            /\ authorization_codes' =
                   IF form.grant_type = "authorization_code"
                      /\ form.code \in DOMAIN authorization_codes
                      /\ token_endpoint(form).detail = "Invalid code_verifier"
                   THEN [authorization_codes EXCEPT ![form.code].used = TRUE]
                   ELSE authorization_codes
            /\ UNCHANGED req
    /\ UNCHANGED <<now, settings, clients, refresh_tokens, fresh,
                   redeemed, pkce, bearer, mcp, timing,
                   OAuthCallbackHandler, flows, sweep>>

\* the handler with a refresh token that is spent by a successful refresh
token_request_rotating(form) ==
    /\ BagCardinality(req) < NumHandlers
    /\ IF token_endpoint(form).status = 0
       THEN /\ req' = req (+) SetToBag({Handler("mark", form,
                          get_authorization_code(form.code))})
            /\ UNCHANGED <<response, refresh_tokens>>
       ELSE /\ response' = Sent(form, token_endpoint(form))
            /\ refresh_tokens' =
                   IF form.grant_type = "refresh_token"
                      /\ token_endpoint(form).status = 200
                   THEN revoked_store(form.refresh_token)
                   ELSE refresh_tokens
            /\ UNCHANGED req
    /\ UNCHANGED <<now, settings, clients, authorization_codes, fresh,
                   redeemed, pkce, bearer, mcp, timing,
                   OAuthCallbackHandler, flows, sweep>>

\* a request arrives and runs up to its return, or up to mark_code_as_used
token_request(form) ==
    /\ BagCardinality(req) < NumHandlers
    /\ IF token_endpoint(form).status = 0
       THEN /\ req' = req (+) SetToBag({Handler("mark", form,
                          get_authorization_code(form.code))})
            /\ UNCHANGED response
       ELSE /\ response' = Sent(form, token_endpoint(form))
            /\ UNCHANGED req
    /\ UNCHANGED <<now, settings, clients, authorization_codes, refresh_tokens,
                   fresh, redeemed, pkce, bearer, mcp, timing,
                   OAuthCallbackHandler, flows, sweep>>

\* the handler going on to mint whatever mark_code_as_used returns
token_mark_code_unconditional(r) ==
    /\ r.pc = "mark"
    /\ authorization_codes' = mark_code_as_used(r.form.code).codes
    /\ req' = Continue(r, [r EXCEPT !.pc = "mint"])
    /\ UNCHANGED <<now, settings, clients, refresh_tokens, fresh, redeemed,
                   response, pkce, bearer, mcp, timing,
                   OAuthCallbackHandler, flows, sweep>>

\* storage.mark_code_as_used
token_mark_code(r) ==
    /\ r.pc = "mark"
    /\ LET marked == mark_code_as_used(r.form.code)
       IN  /\ authorization_codes' = marked.codes
           /\ IF marked.ok
              THEN /\ req' = Continue(r, [r EXCEPT !.pc = "mint"])
                   /\ UNCHANGED response
              ELSE /\ req' = Return(r)
                   /\ response' = Sent(r.form, HTTPException(400,
                          "Authorization code already used or expired"))
    /\ UNCHANGED <<now, settings, clients, refresh_tokens, fresh, redeemed, pkce, bearer, mcp, timing,
                   OAuthCallbackHandler, flows, sweep>>

\* token_issue storing the refresh token with the default scope
token_issue_default_scope(r) ==
    /\ r.pc = "mint"
    /\ fresh.token < MaxTokens
    /\ LET access == create_access_token(r.form.client_id,
                         r.auth_code.user_id, r.auth_code.scope)
           refresh_token_value == fresh.token + 1
           refresh_token_obj == RefreshToken(
               refresh_token_value, r.form.client_id, r.auth_code.user_id,
               DEFAULT_SCOPE, now + OAUTH_REFRESH_TOKEN_EXPIRE)
       IN  /\ refresh_tokens' =
                  Put(refresh_tokens, refresh_token_value, refresh_token_obj)
           /\ fresh' = [fresh EXCEPT !.token = refresh_token_value]
           /\ response' = Sent(r.form,
                  TokenResponse(access.token, access.expires_in,
                      refresh_token_value, r.auth_code.scope))
           /\ redeemed' = [redeemed EXCEPT ![r.form.code] = @ + 1]
    /\ req' = Return(r)
    /\ UNCHANGED <<now, settings, clients, authorization_codes, pkce, bearer, mcp, timing,
                   OAuthCallbackHandler, flows, sweep>>

\* create_access_token, store_refresh_token and the token response
token_issue(r) ==
    /\ r.pc = "mint"
    /\ fresh.token < MaxTokens
    /\ LET access == create_access_token(r.form.client_id,
                         r.auth_code.user_id, r.auth_code.scope)
           refresh_token_value == fresh.token + 1
           refresh_token_obj == RefreshToken(
               refresh_token_value, r.form.client_id, r.auth_code.user_id,
               r.auth_code.scope, now + OAUTH_REFRESH_TOKEN_EXPIRE)
       IN  /\ refresh_tokens' =
                  Put(refresh_tokens, refresh_token_value, refresh_token_obj)
           /\ fresh' = [fresh EXCEPT !.token = refresh_token_value]
           /\ response' = Sent(r.form,
                  TokenResponse(access.token, access.expires_in,
                      refresh_token_value, r.auth_code.scope))
           /\ redeemed' = [redeemed EXCEPT ![r.form.code] = @ + 1]
    /\ req' = Return(r)
    /\ UNCHANGED <<now, settings, clients, authorization_codes, pkce, bearer, mcp, timing,
                   OAuthCallbackHandler, flows, sweep>>

(* ------------------------- storage maintenance ------------------------ *)

revoke_refresh_token(token) ==
    /\ refresh_tokens' = revoked_store(token)
    /\ UNCHANGED <<now, settings, clients, authorization_codes, fresh, req,
                   response, redeemed, pkce, bearer, mcp, timing,
                   OAuthCallbackHandler, flows, sweep>>

cleanup_expired_codes ==
    /\ authorization_codes' = unexpired_codes
    /\ UNCHANGED <<now, settings, clients, refresh_tokens, fresh, req,
                   response, redeemed, pkce, bearer, mcp, timing,
                   OAuthCallbackHandler, flows, sweep>>

cleanup_expired_tokens ==
    /\ refresh_tokens' = unexpired_tokens
    /\ UNCHANGED <<now, settings, clients, authorization_codes, fresh, req,
                   response, redeemed, pkce, bearer, mcp, timing,
                   OAuthCallbackHandler, flows, sweep>>

cleanup_all ==
    /\ authorization_codes' = unexpired_codes
    /\ refresh_tokens' = unexpired_tokens
    /\ UNCHANGED <<now, settings, clients, fresh, req, response, redeemed, pkce, bearer, mcp, timing,
                   OAuthCallbackHandler, flows, sweep>>

reset ==
    /\ clients' = EmptyDict
    /\ authorization_codes' = EmptyDict
    /\ refresh_tokens' = EmptyDict
    /\ UNCHANGED <<now, settings, fresh, req, response, redeemed, pkce, bearer, mcp, timing,
                   OAuthCallbackHandler, flows, sweep>>

(* ---------------------------- specification --------------------------- *)

\* the authorization requests that arrive: the well-formed ones, and one
\* for each malformed parameter
AuthorizeRequests ==
    {[response_type |-> "code", client_id |-> client_id,
      redirect_uri |-> q.redirect_uri, code_challenge |-> q.code_challenge,
      code_challenge_method |-> q.code_challenge_method, scope |-> q.scope] :
        client_id \in ClientIds, q \in Consents}
    \cup
    {[response_type |-> "token", client_id |-> 1, redirect_uri |-> 1,
      code_challenge |-> 2, code_challenge_method |-> "S256", scope |-> ""],
     [response_type |-> "code", client_id |-> 1, redirect_uri |-> 1,
      code_challenge |-> None, code_challenge_method |-> "S256", scope |-> ""],
     [response_type |-> "code", client_id |-> 1, redirect_uri |-> 1,
      code_challenge |-> 2, code_challenge_method |-> "S512", scope |-> ""]}

\* the client_secret parameters that arrive: absent, or client 1's secret
RequestSecrets == {None, SecretOf(1)}

\* the token requests that arrive: a grant's form carries the parameters of
\* that grant, and one form of each grant lacks them
TokenRequests ==
    {TokenRequest("authorization_code", code, redirect_uri, code_verifier, None, client_id, client_secret) :
        code \in CodeIds, redirect_uri \in Uris,
        code_verifier \in RequestStrings, client_id \in ClientIds,
        client_secret \in RequestSecrets}
    \cup
    {TokenRequest("refresh_token", None, None, None, refresh_token, client_id, client_secret) :
        refresh_token \in TokenIds, client_id \in ClientIds,
        client_secret \in RequestSecrets}
    \cup
    {TokenRequest("authorization_code", None, 1, 1, None, 1, None),
     TokenRequest("refresh_token", None, None, None, None, 1, None),
     TokenRequest("password", None, None, None, None, 1, None)}
    \cup
    {TokenRequest("password", 1, 1, 1, 1, client_id, client_secret) :
        client_id \in ClientIds, client_secret \in RequestSecrets}

Next ==
    \/ Tick
    \/ \E request \in Registrations :
          register_client(request.redirect_uris, request.scope)
    \/ \E q \in AuthorizeRequests :
          authorize(q.response_type, q.client_id, q.redirect_uri,
                    q.code_challenge, q.code_challenge_method, q.scope)
    \/ \E form \in TokenRequests : token_request(form)
    \/ \E r \in InFlight : token_mark_code(r)
    \/ \E r \in InFlight : token_issue(r)
    \/ \E token \in TokenIds : revoke_refresh_token(token)
    \/ cleanup_expired_codes
    \/ cleanup_expired_tokens
    \/ cleanup_all
    \/ reset

Spec == Init /\ [][Next]_vars

\* what the server's scheduling gives: the clock advances and a handler
\* that has started runs to its response; no code of the server calls the
\* sweeps, revoke_refresh_token or reset, and no client owes a request
Fairness ==
    /\ WF_vars(Tick)
    /\ WF_vars(\E r \in InFlight : token_mark_code(r))
    /\ WF_vars(\E r \in InFlight : token_issue(r))

SpecFair == Spec /\ Fairness

\* issuance alone: registrations, authorization requests, the clock and the
\* sweep of the code store
NextCodes ==
    \/ Tick
    \/ \E request \in Registrations :
          register_client(request.redirect_uris, request.scope)
    \/ \E q \in AuthorizeRequests :
          authorize_within(MaxIssued, q.response_type, q.client_id,
                           q.redirect_uri, q.code_challenge,
                           q.code_challenge_method, q.scope)
    \/ cleanup_expired_codes

SpecCodes == Init /\ [][NextCodes]_vars

\* cleanup_expired_codes statement by statement, beside issuance: the method
\* reads the clock, iterates over the dict to build a new one, and assigns
\* it; it takes no lock, so a store can fall between any two of these
cleanup_expired_codes_read ==
    /\ sweep.pc = "idle"
    /\ sweep' = Sweep("iterating", now, authorization_codes)
    /\ UNCHANGED <<now, settings, clients, authorization_codes,
                   refresh_tokens, fresh, req, response, redeemed, pkce,
                   bearer, mcp, timing, OAuthCallbackHandler, flows>>

\* the comprehension ends: the new dict holds the unexpired items it saw
cleanup_expired_codes_build ==
    /\ sweep.pc = "iterating"
    /\ sweep' = Sweep("built", sweep.now,
                      Restrict(sweep.codes,
                               {c \in DOMAIN sweep.codes :
                                   sweep.codes[c].expires_at > sweep.now}))
    /\ UNCHANGED <<now, settings, clients, authorization_codes,
                   refresh_tokens, fresh, req, response, redeemed, pkce,
                   bearer, mcp, timing, OAuthCallbackHandler, flows>>

\* the dict was stored into while the comprehension iterated over it and the
\* iterator noticed: RuntimeError, and the method ends without assigning
cleanup_expired_codes_raise ==
    /\ sweep.pc = "iterating"
    /\ DOMAIN authorization_codes # DOMAIN sweep.codes
    /\ sweep' = NoSweep
    /\ UNCHANGED <<now, settings, clients, authorization_codes,
                   refresh_tokens, fresh, req, response, redeemed, pkce,
                   bearer, mcp, timing, OAuthCallbackHandler, flows>>

cleanup_expired_codes_assign ==
    /\ sweep.pc = "built"
    /\ authorization_codes' = sweep.codes
    /\ sweep' = NoSweep
    /\ UNCHANGED <<now, settings, clients, refresh_tokens, fresh, req,
                   response, redeemed, pkce, bearer, mcp, timing,
                   OAuthCallbackHandler, flows>>

NextSweep ==
    \/ Tick
    \/ \E request \in Registrations :
          register_client(request.redirect_uris, request.scope)
    \/ \E q \in AuthorizeRequests :
          authorize_within(MaxIssued, q.response_type, q.client_id,
                           q.redirect_uri, q.code_challenge,
                           q.code_challenge_method, q.scope)
    \/ cleanup_expired_codes_read
    \/ cleanup_expired_codes_build
    \/ cleanup_expired_codes_raise
    \/ cleanup_expired_codes_assign

SpecSweep == Init /\ [][NextSweep]_vars

(* ------------------- the PKCE functions on their own ------------------ *)

InitPKCE ==
    /\ now = 0
    /\ settings \in [OAUTH_AUTHORIZATION_CODE_EXPIRE : 0..MaxCodeTtl]
    /\ clients = EmptyDict
    /\ authorization_codes = EmptyDict
    /\ refresh_tokens = EmptyDict
    /\ fresh = [client |-> 0, code |-> 0, token |-> 0]
    /\ req = EmptyBag
    /\ response = Sent(NoRequest, HTTPException(0, ""))
    /\ redeemed = [c \in CodeIds |-> 0]
    /\ pkce \in {Pkce("start", v, w, m) :
                    v \in Strings, w \in Strings, m \in MethodNames}
    /\ bearer = NoBearer
    /\ mcp = NoMcp
    /\ timing = NoTiming
    /\ OAuthCallbackHandler = NoCallback
    /\ flows = NoFlows
    /\ sweep = NoSweep

\* challenge = generate_code_challenge(verifier, method)
pkce_challenge ==
    /\ pkce.pc = "start"
    /\ pkce' = [pkce EXCEPT !.pc = "challenged",
                   !.code_challenge =
                       generate_code_challenge(pkce.code_verifier, pkce.method)]
    /\ UNCHANGED <<now, settings, clients, authorization_codes, refresh_tokens,
                   fresh, req, response, redeemed, bearer, mcp, timing,
                   OAuthCallbackHandler, flows, sweep>>

\* verify_code_challenge(verifier, challenge, method), for both verifiers
pkce_verify ==
    /\ pkce.pc = "challenged"
    /\ pkce' = [pkce EXCEPT !.pc = "verified",
                   !.verified = verify_code_challenge(
                       pkce.code_verifier, pkce.code_challenge, pkce.method),
                   !.other_verified = verify_code_challenge(
                       pkce.other_verifier, pkce.code_challenge, pkce.method)]
    /\ UNCHANGED <<now, settings, clients, authorization_codes, refresh_tokens,
                   fresh, req, response, redeemed, bearer, mcp, timing,
                   OAuthCallbackHandler, flows, sweep>>

NextPKCE == pkce_challenge \/ pkce_verify

SpecPKCE == InitPKCE /\ [][NextPKCE]_vars

(* --------------------- access tokens, on their own -------------------- *)

\* the scopes a token is created for
TokenScopes == {"", "s1", "s2"}

InitJWT ==
    /\ now = 0
    /\ settings \in [OAUTH_AUTHORIZATION_CODE_EXPIRE : 0..MaxCodeTtl]
    /\ clients = EmptyDict
    /\ authorization_codes = EmptyDict
    /\ refresh_tokens = EmptyDict
    /\ fresh = [client |-> 0, code |-> 0, token |-> 0]
    /\ req = EmptyBag
    /\ response = Sent(NoRequest, HTTPException(0, ""))
    /\ redeemed = [c \in CodeIds |-> 0]
    /\ pkce = NoPkce
    /\ bearer = Bearer("start", 0, NoAccessToken, 0, NoVerdict)
    /\ mcp = NoMcp
    /\ timing = NoTiming
    /\ OAuthCallbackHandler = NoCallback
    /\ flows = NoFlows
    /\ sweep = NoSweep

\* create_access_token up to expires_at, its first reading of the clock
jwt_expires_at ==
    /\ bearer.pc = "start"
    /\ bearer' = [bearer EXCEPT !.pc = "claims",
                     !.expires_in = JWT_ACCESS_TOKEN_EXPIRE,
                     !.expires_at = now + JWT_ACCESS_TOKEN_EXPIRE]
    /\ UNCHANGED <<now, settings, clients, authorization_codes, refresh_tokens,
                   fresh, req, response, redeemed, pkce, mcp, timing,
                   OAuthCallbackHandler, flows, sweep>>

\* create_access_token from the claims dict, with its second reading of the
\* clock, to its return
jwt_encode(client_id, user_id, scope) ==
    /\ bearer.pc = "claims"
    /\ bearer' = [bearer EXCEPT !.pc = "minted",
                     !.token = access_token_claims(client_id, user_id, scope,
                                                   bearer.expires_at)]
    /\ UNCHANGED <<now, settings, clients, authorization_codes, refresh_tokens,
                   fresh, req, response, redeemed, pkce, mcp, timing,
                   OAuthCallbackHandler, flows, sweep>>

\* the token reaches the server with another signature, or it is a token
\* signed with the same key for another audience
jwt_tamper(key, aud) ==
    /\ bearer.pc = "minted"
    /\ bearer' = [bearer EXCEPT !.pc = "presented",
                     !.token = [bearer.token EXCEPT !.key = key, !.aud = aud]]
    /\ UNCHANGED <<now, settings, clients, authorization_codes, refresh_tokens,
                   fresh, req, response, redeemed, pkce, mcp, timing,
                   OAuthCallbackHandler, flows, sweep>>

\* verify_access_token(token)
jwt_verify ==
    /\ bearer.pc \in {"minted", "presented", "verified"}
    /\ bearer' = [bearer EXCEPT !.pc = "verified",
                     !.verdict = verify_access_token(bearer.token)]
    /\ UNCHANGED <<now, settings, clients, authorization_codes, refresh_tokens,
                   fresh, req, response, redeemed, pkce, mcp, timing,
                   OAuthCallbackHandler, flows, sweep>>

NextJWT ==
    \/ Tick
    \/ jwt_expires_at
    \/ \E client_id \in ClientIds : \E scope \in TokenScopes :
          jwt_encode(client_id, MOCK_USER, scope)
    \/ \E key \in {JWT_SECRET_KEY, "forged"} :
          \E aud \in {SERVER_URL, "https://other.example"} :
              jwt_tamper(key, aud)
    \/ jwt_verify

SpecJWT == InitJWT /\ [][NextJWT]_vars

(* ------------------------------ /mcp ---------------------------------- *)

\* str.lower() on the schemes that arrive
Lower(scheme) ==
    CASE scheme = "Bearer" -> "bearer"
      [] scheme = "BEARER" -> "bearer"
      [] scheme = "Basic" -> "basic"
      [] OTHER -> scheme

\* the challenge of a request without Authorization header
DiscoveryChallenge ==
    "WWW-Authenticate: Bearer realm=\"mcp-server\", as_uri=\""
        \o SERVER_URL \o "/.well-known/oauth-authorization-server\", resource=\""
        \o SERVER_URL \o "\""

\* raise HTTPException(401, detail, headers) in get_current_user
Unauthorized(detail, headers) ==
    [status |-> 401, detail |-> detail, headers |-> headers,
     payload |-> NoPayload]

\* get_current_user that takes the claims of the token as they stand
get_current_user_unverified(authorization) ==
    IF ~authorization.present
    THEN Unauthorized("Missing authorization header", DiscoveryChallenge)
    ELSE IF Len(authorization.parts) # 2
            \/ Lower(authorization.parts[1]) # "bearer"
    THEN Unauthorized(
             "Invalid authorization header format. Expected 'Bearer <token>'",
             "WWW-Authenticate: Bearer")
    ELSE [status |-> 200, detail |-> "", headers |-> "",
          payload |-> Payload(authorization.parts[2])]

\* get_current_user: the claims it returns (status 200) or the
\* HTTPException it raises
get_current_user(authorization) ==
    IF ~authorization.present
    THEN Unauthorized("Missing authorization header", DiscoveryChallenge)
    ELSE IF Len(authorization.parts) # 2
            \/ Lower(authorization.parts[1]) # "bearer"
    THEN Unauthorized(
             "Invalid authorization header format. Expected 'Bearer <token>'",
             "WWW-Authenticate: Bearer")
    ELSE verify_access_token(authorization.parts[2])

\* the tools execute_tool knows
TOOL_EXECUTORS == {"get_weather", "list_files", "get_user_profile"}

\* the JSON-RPC bodies that arrive: the version and, for tools/call, the
\* name of the tool ("" when params has none)
McpRequests ==
    {[jsonrpc |-> "2.0", name |-> "get_weather"],
     [jsonrpc |-> "2.0", name |-> ""],
     [jsonrpc |-> "2.0", name |-> "rm"],
     [jsonrpc |-> "1.0", name |-> "get_weather"]}

\* the Authorization headers that arrive: none, and headers of no, one, two
\* and three parts around the access token at hand
Authorizations ==
    {NoHeader, Header(<<>>), Header(<<"Bearer">>),
     Header(<<"Basic", bearer.token>>), Header(<<"Bearer", bearer.token>>),
     Header(<<"bearer", bearer.token>>),
     Header(<<"Bearer", bearer.token, "x">>)}

\* POST /mcp/initialize
initialize(request) ==
    /\ mcp' = Mcp("initialize", NoHeader, 200, "", "",
                  IF request.jsonrpc # "2.0" THEN -32600 ELSE 0, "")
    /\ UNCHANGED <<now, settings, clients, authorization_codes, refresh_tokens,
                   fresh, req, response, redeemed, pkce, bearer,
                   timing,
                   OAuthCallbackHandler, flows, sweep>>

\* POST /mcp/tools/list, behind Depends(get_current_user)
list_tools(request, authorization) ==
    /\ LET current_user == get_current_user(authorization)
       IN  mcp' =
               IF current_user.status # 200
               THEN Mcp("tools/list", authorization, current_user.status,
                        current_user.headers, current_user.detail, 0, "")
               ELSE IF request.jsonrpc # "2.0"
               THEN Mcp("tools/list", authorization, 200, "", "", -32600, "")
               ELSE Mcp("tools/list", authorization, 200, "", "", 0,
                        "get_available_tools")
    /\ UNCHANGED <<now, settings, clients, authorization_codes, refresh_tokens,
                   fresh, req, response, redeemed, pkce, bearer,
                   timing,
                   OAuthCallbackHandler, flows, sweep>>

\* POST /mcp/tools/call, behind Depends(get_current_user)
call_tool(request, authorization) ==
    /\ LET current_user == get_current_user(authorization)
       IN  mcp' =
               IF current_user.status # 200
               THEN Mcp("tools/call", authorization, current_user.status,
                        current_user.headers, current_user.detail, 0, "")
               ELSE IF request.jsonrpc # "2.0"
               THEN Mcp("tools/call", authorization, 200, "", "", -32600, "")
               ELSE IF request.name = ""
               THEN Mcp("tools/call", authorization, 200, "", "", -32602, "")
               ELSE IF request.name \notin TOOL_EXECUTORS
               THEN Mcp("tools/call", authorization, 200, "", "", -32601, "")
               ELSE Mcp("tools/call", authorization, 200, "", "", 0,
                        request.name)
    /\ UNCHANGED <<now, settings, clients, authorization_codes, refresh_tokens,
                   fresh, req, response, redeemed, pkce, bearer,
                   timing,
                   OAuthCallbackHandler, flows, sweep>>

NextMCP ==
    \/ NextJWT
    \/ \E request \in McpRequests : initialize(request)
    \/ \E request \in McpRequests : \E authorization \in Authorizations :
          list_tools(request, authorization)
    \/ \E request \in McpRequests : \E authorization \in Authorizations :
          call_tool(request, authorization)

SpecMCP == InitJWT /\ [][NextMCP]_vars

(* --------------------------- str comparisons --------------------------- *)

\* strings character by character
Chars == {"a", "b"}
Texts == UNION {[1..n -> Chars] : n \in 1..MaxLen}

\* how many leading characters of a and b agree
LeadingMatch(a, b) ==
    CHOOSE k \in 0..Len(a) :
        /\ k <= Len(b)
        /\ \A i \in 1..k : a[i] = b[i]
        /\ (k < Len(a) /\ k < Len(b)) => a[k + 1] # b[k + 1]

\* a == b on str: the lengths, then the characters up to the first that
\* differs
str_eq(a, b) ==
    [equal |-> a = b,
     steps |-> IF Len(a) # Len(b) THEN 0
               ELSE IF a = b THEN Len(a)
               ELSE LeadingMatch(a, b) + 1]

\* base64url(sha256(verifier)) character by character: an injective
\* scrambling of the text
Sha256B64Text(verifier) ==
    [i \in 1..Len(verifier) |->
        IF verifier[Len(verifier) + 1 - i] = "a" THEN "b" ELSE "a"]

\* generate_code_challenge on texts
generate_code_challenge_text(code_verifier, method) ==
    IF method = "S256" THEN Sha256B64Text(code_verifier) ELSE code_verifier

\* the secret or challenge the server stores is any text
InitTiming ==
    /\ now = 0
    /\ settings \in [OAUTH_AUTHORIZATION_CODE_EXPIRE : 0..MaxCodeTtl]
    /\ clients = EmptyDict
    /\ authorization_codes = EmptyDict
    /\ refresh_tokens = EmptyDict
    /\ fresh = [client |-> 0, code |-> 0, token |-> 0]
    /\ req = EmptyBag
    /\ response = Sent(NoRequest, HTTPException(0, ""))
    /\ redeemed = [c \in CodeIds |-> 0]
    /\ pkce = NoPkce
    /\ bearer = NoBearer
    /\ mcp = NoMcp
    /\ timing \in {Timing("start", stored, <<>>, FALSE, 0) : stored \in Texts}
    /\ OAuthCallbackHandler = NoCallback
    /\ flows = NoFlows
    /\ sweep = NoSweep

\* client.client_secret != client_secret in token_endpoint
compare_client_secret(client_secret) ==
    /\ timing.site # ""
    /\ LET compared == str_eq(timing.stored, client_secret)
       IN  timing' = Timing("client_secret", timing.stored, client_secret,
                            compared.equal, compared.steps)
    /\ UNCHANGED <<now, settings, clients, authorization_codes, refresh_tokens,
                   fresh, req, response, redeemed, pkce, bearer, mcp,
                   OAuthCallbackHandler, flows, sweep>>

\* expected_challenge == code_challenge in verify_code_challenge
compare_code_challenge(code_verifier, method) ==
    /\ timing.site # ""
    /\ LET expected_challenge ==
               generate_code_challenge_text(code_verifier, method)
           compared == str_eq(expected_challenge, timing.stored)
       IN  timing' = Timing("code_challenge", timing.stored,
                            expected_challenge, compared.equal, compared.steps)
    /\ UNCHANGED <<now, settings, clients, authorization_codes, refresh_tokens,
                   fresh, req, response, redeemed, pkce, bearer, mcp,
                   OAuthCallbackHandler, flows, sweep>>

NextTiming ==
    \/ \E client_secret \in Texts : compare_client_secret(client_secret)
    \/ \E code_verifier \in Texts : \E method \in {"S256", "plain"} :
          compare_code_challenge(code_verifier, method)

SpecTiming == InitTiming /\ [][NextTiming]_vars

(* ------------------------------ client.py ------------------------------ *)

\* flow f with its position and some of its locals changed
Step(f, flow) == flows' = [flows EXCEPT ![f] = flow]

\* MCPOAuthClient.authorize up to the wait for the callback: the state is
\* generated and the handler's class variables are reset
authorize_start(f) ==
    /\ flows[f].pc = "idle"
    /\ OAuthCallbackHandler' = NoCallback
    /\ Step(f, [flows[f] EXCEPT !.pc = "wait"])
    /\ UNCHANGED <<now, settings, clients, authorization_codes, refresh_tokens,
                   fresh, req, response, redeemed, pkce, bearer, mcp, timing,
                   sweep>>

\* the loop of authorize ends on its timeout
authorize_timeout(f) ==
    /\ flows[f].pc = "wait"
    /\ Step(f, [flows[f] EXCEPT !.pc = "failed"])
    /\ UNCHANGED OAuthCallbackHandler
    /\ UNCHANGED <<now, settings, clients, authorization_codes, refresh_tokens,
                   fresh, req, response, redeemed, pkce, bearer, mcp, timing,
                   sweep>>

\* do_GET on the flow's callback server, for a callback with a code: the
\* assignment to authorization_code
do_GET_code(f, code) ==
    /\ flows[f].pc = "wait"
    /\ OAuthCallbackHandler' =
           [OAuthCallbackHandler EXCEPT !.authorization_code = code]
    /\ Step(f, [flows[f] EXCEPT !.pc = "do_GET", !.received = code])
    /\ UNCHANGED <<now, settings, clients, authorization_codes, refresh_tokens,
                   fresh, req, response, redeemed, pkce, bearer, mcp, timing,
                   sweep>>

\* do_GET: the assignment to state
do_GET_state(f) ==
    /\ flows[f].pc = "do_GET"
    /\ OAuthCallbackHandler' =
           [OAuthCallbackHandler EXCEPT !.state = StateOf(flows[f].received)]
    /\ Step(f, [flows[f] EXCEPT !.pc = "check"])
    /\ UNCHANGED <<now, settings, clients, authorization_codes, refresh_tokens,
                   fresh, req, response, redeemed, pkce, bearer, mcp, timing,
                   sweep>>

\* do_GET for a callback with an error, and for one with neither
do_GET_error(f, error) ==
    /\ flows[f].pc = "wait"
    /\ OAuthCallbackHandler' =
           IF error = None THEN OAuthCallbackHandler
           ELSE [OAuthCallbackHandler EXCEPT !.error = error]
    /\ Step(f, [flows[f] EXCEPT !.pc = "check", !.received = None])
    /\ UNCHANGED <<now, settings, clients, authorization_codes, refresh_tokens,
                   fresh, req, response, redeemed, pkce, bearer, mcp, timing,
                   sweep>>

\* authorize after handle_request: is there a code, is there an error
authorize_check(f) ==
    /\ flows[f].pc = "check"
    /\ Step(f, [flows[f] EXCEPT !.pc =
                   IF OAuthCallbackHandler.authorization_code # None
                   THEN "read_code"
                   ELSE IF OAuthCallbackHandler.error # None
                   THEN "failed"
                   ELSE "wait"])
    /\ UNCHANGED OAuthCallbackHandler
    /\ UNCHANGED <<now, settings, clients, authorization_codes, refresh_tokens,
                   fresh, req, response, redeemed, pkce, bearer, mcp, timing,
                   sweep>>

\* authorization_code = OAuthCallbackHandler.authorization_code
authorize_read_code(f) ==
    /\ flows[f].pc = "read_code"
    /\ Step(f, [flows[f] EXCEPT !.pc = "read_state",
                   !.authorization_code =
                       OAuthCallbackHandler.authorization_code])
    /\ UNCHANGED OAuthCallbackHandler
    /\ UNCHANGED <<now, settings, clients, authorization_codes, refresh_tokens,
                   fresh, req, response, redeemed, pkce, bearer, mcp, timing,
                   sweep>>

\* returned_state = OAuthCallbackHandler.state
authorize_read_state(f) ==
    /\ flows[f].pc = "read_state"
    /\ Step(f, [flows[f] EXCEPT !.pc = "validate",
                   !.returned_state = OAuthCallbackHandler.state])
    /\ UNCHANGED OAuthCallbackHandler
    /\ UNCHANGED <<now, settings, clients, authorization_codes, refresh_tokens,
                   fresh, req, response, redeemed, pkce, bearer, mcp, timing,
                   sweep>>

\* the state check, and _exchange_code_for_token with the code
authorize_validate(f) ==
    /\ flows[f].pc = "validate"
    /\ IF flows[f].returned_state # f
       THEN Step(f, [flows[f] EXCEPT !.pc = "failed"])
       ELSE Step(f, [flows[f] EXCEPT !.pc = "exchanged",
                        !.exchanged = flows[f].authorization_code])
    /\ UNCHANGED OAuthCallbackHandler
    /\ UNCHANGED <<now, settings, clients, authorization_codes, refresh_tokens,
                   fresh, req, response, redeemed, pkce, bearer, mcp, timing,
                   sweep>>

NextClient ==
    \E f \in ClientFlows :
        \/ authorize_start(f)
        \/ authorize_timeout(f)
        \/ \E code \in CallbackCodes : do_GET_code(f, code)
        \/ do_GET_state(f)
        \/ \E error \in {None, 1} : do_GET_error(f, error)
        \/ authorize_check(f)
        \/ authorize_read_code(f)
        \/ authorize_read_state(f)
        \/ authorize_validate(f)

SpecClient == Init /\ [][NextClient]_vars

(* ------------------------------- claims ------------------------------- *)

\* the verifier satisfies the challenge under the method (RFC 7636)
Satisfies(code_verifier, code_challenge, method) ==
    \/ method = "S256" /\ Sha256B64(code_verifier) = code_challenge
    \/ method = "plain" /\ code_verifier = code_challenge

\* the client of the form is registered and the form carries no secret or
\* that client's secret
Authenticated(form) ==
    /\ form.client_id \in DOMAIN clients
    /\ form.client_secret \in {None, clients[form.client_id].client_secret}

\* form is an authorization_code request for stored code c with valid,
\* matching client_id, redirect_uri and code_verifier
Matching(form, c) ==
    /\ form.grant_type = "authorization_code"
    /\ form.code = c
    /\ c \in DOMAIN authorization_codes
    /\ Authenticated(form)
    /\ form.client_id = authorization_codes[c].client_id
    /\ form.redirect_uri = authorization_codes[c].redirect_uri
    /\ Satisfies(form.code_verifier, authorization_codes[c].code_challenge,
                 authorization_codes[c].code_challenge_method)

\* the redemptions of code that have succeeded: answered or about to be
Winners(code) == redeemed[code] + Minting(code)

\* the token endpoint's latest response
Responded(grant_type, status, detail) ==
    /\ response.grant_type = grant_type
    /\ response.body.status = status
    /\ response.body.detail = detail

C2_NoSecondRedemption ==
    \A c \in CodeIds : redeemed[c] >= 1 =>
        /\ redeemed[c] = 1
        /\ Minting(c) = 0
        /\ \A form \in TokenRequests :
              (form.grant_type = "authorization_code" /\ form.code = c) =>
                  token_endpoint(form).status \in {400, 401}
        /\ \A r \in InFlight : r.form.code = c =>
              r.pc = "mark" /\ ~mark_code_as_used(c).ok

\* a code was redeemed, and a later request for it, while it is still
\* stored and unexpired, was refused
C2_Witness ==
    /\ Responded("authorization_code", 400,
                 "Invalid or expired authorization code")
    /\ \E c \in DOMAIN authorization_codes :
          /\ redeemed[c] = 1
          /\ now <= authorization_codes[c].expires_at
          /\ DOMAIN authorization_codes = 1..fresh.code

\* a handler passes mark_code_as_used in this step and goes on to mint
Marks(r) ==
    /\ r.pc = "mint"
    /\ CopiesIn(r, req') > CopiesIn(r, req)

\* C3: tokens are minted only by a successful redemption.  A handler goes on
\* to mint only in a step that sets the used flag of its stored code from
\* false to true; the refresh token store gains an entry, and a code counts
\* as redeemed, only in the step in which such a handler returns its 200
\* token response; and an authorization_code request answered with an error
\* carries no access token and no refresh token and leaves the refresh token
\* store as it was.
C3_MintOnlyByRedemption ==
    [][ /\ \A r \in BagToSet(req') : Marks(r) =>
              /\ r.form.code \in DOMAIN authorization_codes
              /\ r.form.code \in DOMAIN authorization_codes'
              /\ ~authorization_codes[r.form.code].used
              /\ authorization_codes'[r.form.code].used
        /\ (DOMAIN refresh_tokens' \ DOMAIN refresh_tokens # {} \/ redeemed' # redeemed) =>
              \E r \in InFlight :
                  /\ r.pc = "mint"
                  /\ req' = Return(r)
                  /\ response'.grant_type = "authorization_code"
                  /\ response'.body.status = 200
                  /\ DOMAIN refresh_tokens' \ DOMAIN refresh_tokens =
                         {response'.body.refresh_token}
        /\ (response' # response /\ response'.grant_type = "authorization_code"
                /\ response'.body.status # 200) =>
              /\ response'.body.access_token = NoAccessToken
              /\ response'.body.refresh_token = None
              /\ refresh_tokens' = refresh_tokens
              /\ redeemed' = redeemed
    ]_vars

\* a redemption returned tokens: the refresh token of the response is stored
C3_Witness ==
    /\ Responded("authorization_code", 200, "")
    /\ response.body.refresh_token \in DOMAIN refresh_tokens
    /\ response.body.access_token # NoAccessToken
    /\ \E c \in CodeIds : redeemed[c] = 1

\* C4: every successful redemption satisfied all the preconditions.  When a
\* handler passes mark_code_as_used, the client_id of its request is the one
\* stored with the code, its redirect_uri is the stored one, its
\* code_verifier satisfies the stored challenge under the stored method, and
\* at that step the code is stored, unused and not past its expiry.
C4_RedemptionPreconditions ==
    [][ \A r \in BagToSet(req') : Marks(r) =>
            /\ r.form.code \in DOMAIN authorization_codes
            /\ LET auth_code == authorization_codes[r.form.code]
               IN  /\ r.form.client_id = auth_code.client_id
                   /\ r.form.redirect_uri = auth_code.redirect_uri
                   /\ Satisfies(r.form.code_verifier, auth_code.code_challenge,
                                auth_code.code_challenge_method)
                   /\ ~auth_code.used
                   /\ now <= auth_code.expires_at
    ]_vars

\* a handler has passed mark_code_as_used for a stored code
C4_Witness ==
    \E r \in InFlight :
        /\ r.pc = "mint"
        /\ r.form.code \in DOMAIN authorization_codes
        /\ authorization_codes[r.form.code].used
        /\ Matching(r.form, r.form.code)

\* C5: an authorization code issued with a lifetime of zero is never
\* redeemable: no redemption of it succeeds, not even at the clock value at
\* which it was issued.
C5_ZeroLifetimeNeverRedeemed ==
    settings.OAUTH_AUTHORIZATION_CODE_EXPIRE = 0 =>
        \A c \in CodeIds : Winners(c) = 0

\* C6: once the clock has passed the expiry of an authorization code, no
\* redemption of it succeeds: no handler passes mark_code_as_used for it and
\* its used flag stays as it is, also for a handler whose
\* get_authorization_code ran before the expiry; and every request for it
\* that arrives is refused.
C6_NoRedemptionAfterExpiry ==
    [][ \A c \in DOMAIN authorization_codes :
            now > authorization_codes[c].expires_at =>
                /\ \A r \in BagToSet(req') : Marks(r) => r.form.code # c
                /\ c \in DOMAIN authorization_codes' =>
                      authorization_codes'[c].used = authorization_codes[c].used
                /\ \A form \in TokenRequests :
                      (form.grant_type = "authorization_code" /\ form.code = c) =>
                          token_endpoint(form).status \in {400, 401}
    ]_vars

\* a handler whose get_authorization_code ran before the expiry was refused
\* at mark_code_as_used after it: no code was ever used or removed
C6_Witness ==
    /\ Responded("authorization_code", 400,
                 "Authorization code already used or expired")
    /\ DOMAIN authorization_codes = 1..fresh.code
    /\ fresh.code >= 1
    /\ \A c \in DOMAIN authorization_codes :
          /\ ~authorization_codes[c].used
          /\ now > authorization_codes[c].expires_at

\* C7: a redemption whose redirect_uri differs from the one stored with the
\* code is refused with a 400 invalid-grant error, although the code, the
\* client and the code_verifier are valid.
C7_RedirectMismatch ==
    \A form \in TokenRequests :
        /\ form.grant_type = "authorization_code"
        /\ form.code \in DOMAIN authorization_codes
        /\ Authenticated(form)
        /\ LET auth_code == authorization_codes[form.code]
           IN  /\ ~auth_code.used
               /\ now <= auth_code.expires_at
               /\ form.client_id = auth_code.client_id
               /\ Satisfies(form.code_verifier, auth_code.code_challenge,
                            auth_code.code_challenge_method)
               /\ form.redirect_uri # auth_code.redirect_uri
        => /\ token_endpoint(form) = HTTPException(400, "Redirect URI mismatch")
           /\ \A r \in InFlight : r.form # form

\* a request with another redirect_uri was refused while its code was good
C7_Witness ==
    /\ Responded("authorization_code", 400, "Redirect URI mismatch")
    /\ \E c \in DOMAIN authorization_codes :
          /\ ~authorization_codes[c].used
          /\ now <= authorization_codes[c].expires_at
          /\ DOMAIN authorization_codes = 1..fresh.code

\* C8: PKCE round trip for S256.  Once a challenge has been derived from a
\* verifier v with S256, verifying v against it gives true, and verifying
\* any other verifier against it gives false.
C8_PkceRoundTrip ==
    (pkce.pc = "verified" /\ pkce.method = "S256") =>
        /\ pkce.verified
        /\ pkce.other_verified <=> (pkce.other_verifier = pkce.code_verifier)

\* a challenge was derived with S256 and accepted its verifier and rejected
\* a different one
C8_Witness ==
    /\ pkce.pc = "verified"
    /\ pkce.method = "S256"
    /\ pkce.other_verifier # pkce.code_verifier
    /\ pkce.verified
    /\ ~pkce.other_verified

\* the refresh token of the form is stored, not revoked and not past its
\* expiry, and the form comes from the client that owns it
Refreshable(form) ==
    /\ form.grant_type = "refresh_token"
    /\ form.refresh_token \in DOMAIN refresh_tokens
    /\ ~refresh_tokens[form.refresh_token].revoked
    /\ now <= refresh_tokens[form.refresh_token].expires_at
    /\ Authenticated(form)
    /\ form.client_id = refresh_tokens[form.refresh_token].client_id

\* C9: a stored, non-revoked, unexpired refresh token presented by its owning
\* client mints an access token on every call: the request is answered with
\* a 200 token response whose access token is issued at the current time and
\* carries the subject, client identifier and scope of the refresh token, and
\* answering it leaves the refresh token store as it was, so that the next
\* call finds the token as valid as this one did.
C9_RefreshRepeatable ==
    /\ [](\A form \in TokenRequests : Refreshable(form) =>
             LET refresh_token_obj == refresh_tokens[form.refresh_token]
                 body == token_endpoint(form)
             IN  /\ body.status = 200
                 /\ body.access_token.iat = now
                 /\ body.access_token.sub = refresh_token_obj.user_id
                 /\ body.access_token.client_id = refresh_token_obj.client_id
                 /\ body.access_token.scope = refresh_token_obj.scope
                 /\ body.refresh_token = form.refresh_token)
    /\ [][ (response' # response /\ response'.grant_type = "refresh_token") =>
               refresh_tokens' = refresh_tokens ]_vars

\* a refresh was answered with an access token minted after the refresh
\* token was issued, for the claims of the stored refresh token
C9_Witness ==
    /\ Responded("refresh_token", 200, "")
    /\ response.body.refresh_token \in DOMAIN refresh_tokens
    /\ LET refresh_token_obj == refresh_tokens[response.body.refresh_token]
       IN  /\ response.body.access_token.iat =
                  refresh_token_obj.expires_at
           /\ response.body.access_token.sub = refresh_token_obj.user_id
           /\ response.body.access_token.scope = refresh_token_obj.scope
           /\ ~refresh_token_obj.revoked

\* C10: revocation is permanent.  No step sets the revoked flag of a stored
\* refresh token back to false, a token value that has been issued is never
\* stored anew, and every refresh request with a token that is revoked, or
\* no longer stored, is refused and carries no access token.
C10_RevocationPermanent ==
    /\ [][ /\ \A t \in DOMAIN refresh_tokens \cap DOMAIN refresh_tokens' :
                 refresh_tokens[t].revoked => refresh_tokens'[t].revoked
           /\ \A t \in DOMAIN refresh_tokens' \ DOMAIN refresh_tokens :
                 t > fresh.token /\ t <= fresh'.token
           /\ fresh'.token >= fresh.token ]_vars
    /\ [](\A form \in TokenRequests :
             (/\ form.grant_type = "refresh_token"
              /\ form.refresh_token # None
              /\ \/ form.refresh_token \notin DOMAIN refresh_tokens
                 \/ refresh_tokens[form.refresh_token].revoked)
             => /\ token_endpoint(form).status \in {400, 401}
                /\ token_endpoint(form).access_token = NoAccessToken)

\* a refresh was refused although every token that can be presented is
\* stored and unexpired: each of them is revoked
C10_Witness ==
    /\ Responded("refresh_token", 400, "Invalid or expired refresh token")
    /\ fresh.token = MaxTokens
    /\ DOMAIN refresh_tokens = TokenIds
    /\ \A t \in DOMAIN refresh_tokens :
          /\ refresh_tokens[t].revoked
          /\ now <= refresh_tokens[t].expires_at

\* C11: revoke_refresh_token is idempotent.  Revoking a token that is not in
\* the store, or one that is already revoked, leaves the store as it is; a
\* step that leaves the store as revoke_refresh_token(t) would leaves a store
\* that a second revoke_refresh_token(t) does not change; and a revocation
\* changes nothing but the revoked flag of its token.
C11_RevokeIdempotent ==
    /\ [](\A t \in TokenIds :
             /\ t \notin DOMAIN refresh_tokens => revoked_store(t) = refresh_tokens
             /\ (t \in DOMAIN refresh_tokens /\ refresh_tokens[t].revoked) =>
                   revoked_store(t) = refresh_tokens
             /\ DOMAIN revoked_store(t) = DOMAIN refresh_tokens
             /\ \A u \in DOMAIN refresh_tokens :
                   /\ u # t => revoked_store(t)[u] = refresh_tokens[u]
                   /\ u = t => revoked_store(t)[u] =
                                   [refresh_tokens[u] EXCEPT !.revoked = TRUE])
    /\ [][ \A t \in TokenIds :
               refresh_tokens' = revoked_store(t) =>
                   revoked_store(t)' = refresh_tokens' ]_vars

\* a stored token has been revoked, so that revoking it is a second call
C11_Witness ==
    \E t \in DOMAIN refresh_tokens :
        /\ refresh_tokens[t].revoked
        /\ revoked_store(t) = refresh_tokens
        /\ fresh.token >= t

\* the refresh token is unknown to the store, past its expiry, or revoked
Unknown(token) == token \notin DOMAIN refresh_tokens
Expired(token) ==
    token \in DOMAIN refresh_tokens /\ now > refresh_tokens[token].expires_at
Revoked(token) ==
    token \in DOMAIN refresh_tokens /\ refresh_tokens[token].revoked

\* C12: a refresh request is answered alike whether its refresh token is
\* unknown, expired or revoked.  In every state, the response to a refresh
\* request whose token is in any of the three failure modes is fixed by the
\* client authentication alone: 400 "Invalid or expired refresh token" for an
\* authenticated client, whichever mode applies and whoever owns the token.
C12_UniformRefreshFailure ==
    \A form \in TokenRequests :
        (/\ form.grant_type = "refresh_token"
         /\ form.refresh_token # None
         /\ Authenticated(form)
         /\ \/ Unknown(form.refresh_token)
            \/ Expired(form.refresh_token)
            \/ Revoked(form.refresh_token))
        => token_endpoint(form) =
               HTTPException(400, "Invalid or expired refresh token")

\* a refresh was refused for a token that is stored and not revoked: expired
C12_Witness ==
    /\ Responded("refresh_token", 400, "Invalid or expired refresh token")
    /\ fresh.token = MaxTokens
    /\ DOMAIN refresh_tokens = TokenIds
    /\ \A t \in TokenIds : Expired(t) /\ ~Revoked(t)

\* C13: a refresh only reads.  A step that answers a refresh_token request,
\* with a token response or with an error, leaves the refresh token store,
\* the authorization code store and the client registry as they were, starts
\* no handler and redeems no code; and the token response to a refresh
\* request carries the refresh token value the request gave.
C13_RefreshReadsOnly ==
    /\ [][ (response' # response /\ response'.grant_type = "refresh_token") =>
               /\ refresh_tokens' = refresh_tokens
               /\ authorization_codes' = authorization_codes
               /\ clients' = clients
               /\ req' = req
               /\ redeemed' = redeemed
               /\ fresh' = fresh ]_vars
    /\ [](\A form \in TokenRequests :
             (form.grant_type = "refresh_token"
                  /\ token_endpoint(form).status = 200) =>
                 /\ token_endpoint(form).refresh_token = form.refresh_token
                 /\ form.refresh_token \in DOMAIN refresh_tokens)

\* a refresh was answered with tokens in the tick its refresh token was
\* issued, and the token is stored as it was stored: not revoked
C13_Witness ==
    /\ Responded("refresh_token", 200, "")
    /\ response.body.refresh_token \in DOMAIN refresh_tokens
    /\ LET refresh_token_obj == refresh_tokens[response.body.refresh_token]
       IN  /\ ~refresh_token_obj.revoked
           /\ response.body.access_token.iat + OAUTH_REFRESH_TOKEN_EXPIRE =
                  refresh_token_obj.expires_at
    /\ authorization_codes # EmptyDict

\* the request carries the secret stored for its client
CarriesSecret(form) ==
    /\ form.client_id \in DOMAIN clients
    /\ form.client_secret = clients[form.client_id].client_secret

\* the request carries a code_verifier that satisfies a stored challenge
CarriesPkceProof(form) ==
    /\ form.code_verifier # None
    /\ \E c \in DOMAIN authorization_codes :
          Satisfies(form.code_verifier, authorization_codes[c].code_challenge,
                    authorization_codes[c].code_challenge_method)

\* C14: no access token is minted for a token request, of either grant,
\* that carries neither the secret stored for its client nor a code_verifier
\* satisfying a stored challenge: such a request is not answered with a
\* token response and does not go on to mark_code_as_used.
C14_SecretOrPkceProof ==
    \A form \in TokenRequests :
        (~CarriesSecret(form) /\ ~CarriesPkceProof(form)) =>
            token_endpoint(form).status \in {400, 401}

\* C15: a token request that names an unknown client_id, or carries a
\* client_secret other than the stored one, is answered 401 "Invalid client
\* credentials" whatever the rest of the request is, and the step that
\* answers 401 leaves the three stores as they were, starts no handler,
\* redeems no code and mints no token.
C15_InvalidClientFirst ==
    /\ [](\A form \in TokenRequests : ~Authenticated(form) =>
             token_endpoint(form) =
                 HTTPException(401, "Invalid client credentials"))
    /\ [][ (response' # response /\ response'.body.status = 401) =>
               /\ clients' = clients
               /\ authorization_codes' = authorization_codes
               /\ refresh_tokens' = refresh_tokens
               /\ req' = req
               /\ redeemed' = redeemed
               /\ response'.body.access_token = NoAccessToken
               /\ response'.body.refresh_token = None ]_vars

\* a code grant was answered 401 while a code that could be redeemed is
\* stored: it is still unused, and no token has been stored
C15_Witness ==
    /\ Responded("authorization_code", 401, "Invalid client credentials")
    /\ refresh_tokens = EmptyDict
    /\ \E c \in DOMAIN authorization_codes :
          /\ ~authorization_codes[c].used
          /\ now <= authorization_codes[c].expires_at
          /\ Winners(c) = 0
          /\ authorization_codes[c].client_id \in DOMAIN clients

\* no step but reset takes a registered client out of the registry or
\* changes its record
ClientsKept ==
    \A c \in DOMAIN clients : c \in DOMAIN clients' /\ clients'[c] = clients[c]

Authorizable(q) ==
    /\ q.response_type = "code"
    /\ q.client_id \in DOMAIN clients
    /\ q.redirect_uri \in clients[q.client_id].redirect_uris
    /\ q.code_challenge # None
    /\ q.code_challenge_method \in {"S256", "plain"}

\* C17: the authorize step issues a code only for response_type "code", a
\* registered client_id, a redirect_uri that is one of the client's
\* registered redirect URIs and a code_challenge with a recognised method,
\* and raises a 400 error otherwise; a code enters the store only in a step
\* with such a request, bound to the request's client, redirect URI and
\* challenge; and every stored code names a registered client and one of
\* that client's redirect URIs.
C17_AuthorizeValidation ==
    /\ [](\A q \in AuthorizeRequests :
             authorize_error(q.response_type, q.client_id, q.redirect_uri,
                 q.code_challenge, q.code_challenge_method) = ""
             <=> Authorizable(q))
    /\ [](\A c \in DOMAIN authorization_codes :
             /\ authorization_codes[c].client_id \in DOMAIN clients
             /\ authorization_codes[c].redirect_uri \in
                    clients[authorization_codes[c].client_id].redirect_uris
             /\ authorization_codes[c].code_challenge # None
             /\ authorization_codes[c].code_challenge_method \in {"S256", "plain"})
    /\ [][ \A c \in DOMAIN authorization_codes' \ DOMAIN authorization_codes :
               \E q \in AuthorizeRequests :
                   /\ Authorizable(q)
                   /\ authorization_codes'[c].client_id = q.client_id
                   /\ authorization_codes'[c].redirect_uri = q.redirect_uri
                   /\ authorization_codes'[c].code_challenge = q.code_challenge
                   /\ authorization_codes'[c].code_challenge_method =
                          q.code_challenge_method
                   /\ ~authorization_codes'[c].used ]_vars

\* a code is stored for a client's second redirect URI while another
\* registered client, which lacks that URI, would be refused a code for it
C17_Witness ==
    \E c \in DOMAIN authorization_codes : \E k \in DOMAIN clients :
        /\ authorization_codes[c].redirect_uri = 2
        /\ k # authorization_codes[c].client_id
        /\ 2 \notin clients[k].redirect_uris
        /\ authorize_error("code", k, 2, authorization_codes[c].code_challenge,
               authorization_codes[c].code_challenge_method) = "Invalid redirect_uri"

\* an access token has been created and can be presented
Presentable == bearer.pc \in {"minted", "presented", "verified"}

\* the token carries the signature of this server's key and algorithm
Signed(token) == token.key = JWT_SECRET_KEY /\ token.alg = JWT_ALGORITHM

\* C18: verify_access_token accepts a token exactly when it is correctly
\* signed, now < exp and its audience is the server URL: it rejects whenever
\* now >= exp, the instant now = exp included, and whenever the audience is
\* another.
C18_VerifyRejectsFromExpiry ==
    Presentable =>
        (verify_access_token(bearer.token).status = 200 <=>
            /\ Signed(bearer.token)
            /\ now < bearer.token.exp
            /\ bearer.token.aud = SERVER_URL)

\* C19: verify_access_token rejects an expired token and the same token
\* with a tampered signature with the same outcome: status, headers and
\* error body are equal.
C19_ExpiredLikeTampered ==
    (Presentable /\ Signed(bearer.token) /\ bearer.token.aud = SERVER_URL
         /\ bearer.token.exp < now) =>
        /\ verify_access_token(bearer.token).status = 401
        /\ verify_access_token(bearer.token) =
               verify_access_token([bearer.token EXCEPT !.key = "forged"])

\* C20: mint/verify round trip.  The token create_access_token returns has
\* issuer and audience equal to the server URL and an expiry of issued-at
\* plus the configured lifetime, the expires_in returned with it is that
\* lifetime, and verify_access_token at any time before the expiry returns
\* the subject, client identifier and scope the token was created for.
C20_MintVerifyRoundTrip ==
    bearer.pc = "minted" =>
        /\ bearer.token.iss = SERVER_URL
        /\ bearer.token.aud = SERVER_URL
        /\ bearer.token.exp = bearer.token.iat + JWT_ACCESS_TOKEN_EXPIRE
        /\ bearer.expires_in = JWT_ACCESS_TOKEN_EXPIRE
        /\ now < bearer.token.exp =>
              /\ verify_access_token(bearer.token).status = 200
              /\ verify_access_token(bearer.token).payload.sub = bearer.token.sub
              /\ verify_access_token(bearer.token).payload.client_id =
                     bearer.token.client_id
              /\ verify_access_token(bearer.token).payload.scope =
                     bearer.token.scope

\* the access token of the token endpoint's latest response
Issued == response.body.access_token

\* C21: access tokens are stateless.  An access token returned by the token
\* endpoint verifies at every time before its expiry, with the subject,
\* client identifier and scope it was minted for, whatever has happened to
\* the stores since: revocation of the refresh token it came from, cleanup
\* sweeps, a reset; and no step that leaves the clock as it is changes the
\* outcome of its verification.
C21_AccessTokenStateless ==
    /\ []((response.body.status = 200 /\ now < Issued.exp) =>
             /\ verify_access_token(Issued).status = 200
             /\ verify_access_token(Issued).payload = Payload(Issued))
    /\ [][ (response' = response /\ now' = now) =>
               verify_access_token(Issued)' = verify_access_token(Issued) ]_vars

\* an access token minted from a refresh token verifies although that
\* refresh token has since been revoked
C21_Witness ==
    /\ Responded("refresh_token", 200, "")
    /\ now < Issued.exp
    /\ verify_access_token(Issued).status = 200
    /\ Revoked(response.body.refresh_token)

\* the header is there and is not "Bearer <token>": not exactly two parts,
\* or a scheme other than Bearer
Malformed(authorization) ==
    /\ authorization.present
    /\ \/ Len(authorization.parts) # 2
       \/ Lower(authorization.parts[1]) # "bearer"

\* of the challenges the endpoints send, the one that carries
\* <SERVER_URL>/.well-known/oauth-authorization-server
NamesMetadata(headers) == headers = DiscoveryChallenge

\* the latest MCP request went through get_current_user
Guarded == mcp.method \in {"tools/list", "tools/call"}

\* C22: a request whose Authorization header is missing or malformed is
\* answered 401 with a WWW-Authenticate challenge that names the
\* authorization-server metadata discovery URL.
C22_ChallengeNamesMetadata ==
    (Guarded /\ (~mcp.authorization.present \/ Malformed(mcp.authorization))) =>
        /\ mcp.status = 401
        /\ NamesMetadata(mcp.headers)

\* the header is "Bearer <token>" and verify_access_token accepts the token
\* now
BearsValidToken(authorization) ==
    /\ authorization.present
    /\ ~Malformed(authorization)
    /\ verify_access_token(authorization.parts[2]).status = 200

\* C27: tools/list and tools/call list the tools or run a tool only for a
\* request whose bearer token verify_access_token accepts at that moment;
\* any other request to them is answered 401 and runs nothing; initialize
\* is answered 200 whatever the request carries.
C27_ToolsBehindVerification ==
    /\ [][ (mcp' # mcp /\ mcp'.method \in {"tools/list", "tools/call"}) =>
              /\ mcp'.executed # "" => BearsValidToken(mcp'.authorization)
              /\ ~BearsValidToken(mcp'.authorization) =>
                     (mcp'.status = 401 /\ mcp'.executed = "") ]_vars
    /\ [](mcp.method = "initialize" =>
              (mcp.status = 200 /\ ~mcp.authorization.present))

C27_Witness ==
    /\ mcp.method = "tools/call"
    /\ mcp.status = 200
    /\ mcp.executed = "get_weather"
    /\ BearsValidToken(mcp.authorization)

\* a handler has read the code with get_authorization_code and has not yet
\* called mark_code_as_used
MidRedemption(code) ==
    \E r \in InFlight : r.pc = "mark" /\ r.form.code = code

\* C23: a sweep (cleanup_expired_codes, cleanup_all) never removes the
\* record of a code that a handler holds between get_authorization_code
\* and mark_code_as_used.
C23_SweepSparesMidRedemption ==
    [][ (cleanup_expired_codes \/ cleanup_all) =>
            \A code \in CodeIds :
                (MidRedemption(code) /\ code \in DOMAIN authorization_codes) =>
                    code \in DOMAIN authorization_codes' ]_vars

\* the record of the code is in the store and its expiry has passed
ExpiredInStore(code) ==
    /\ code \in DOMAIN authorization_codes
    /\ now > authorization_codes[code].expires_at

\* C24: a code whose expiry has passed is eventually removed from the code
\* store.
C24_ExpiredEventuallyRemoved ==
    \A code \in CodeIds :
        ExpiredInStore(code) ~> (code \notin DOMAIN authorization_codes)

\* the grants token_endpoint handles
GrantType == {"authorization_code", "refresh_token"}

\* C25: a token request of a registered client (no secret, or its own) with
\* a grant_type other than authorization_code and refresh_token is answered
\* 400 "Unsupported grant_type", and the response to such a request leaves
\* the code store, the refresh-token store and the client registry as they
\* were.
C25_UnsupportedGrantType ==
    /\ [](\A form \in TokenRequests :
             (Authenticated(form) /\ form.grant_type \notin GrantType) =>
                 token_endpoint(form) =
                     HTTPException(400, "Unsupported grant_type: "
                                            \o form.grant_type))
    /\ [][ (response' # response
               /\ response'.grant_type \notin GrantType \cup {""}) =>
               /\ authorization_codes' = authorization_codes
               /\ refresh_tokens' = refresh_tokens
               /\ clients' = clients
               /\ req' = req ]_vars

\* the password grant was refused while a code and a refresh token that
\* such a request names are stored
C25_Witness ==
    /\ Responded("password", 400, "Unsupported grant_type: password")
    /\ 1 \in DOMAIN authorization_codes
    /\ 1 \in DOMAIN refresh_tokens
    /\ ~refresh_tokens[1].revoked

\* C26: a registered client record is immutable.  No step of registration,
\* authorization, the token endpoint, revocation or the sweeps removes a
\* stored client or changes any of its attributes, and a registration that
\* stores a client stores it under a client_id the registry did not hold.
C26_ClientImmutable ==
    [][ ~reset =>
            /\ ClientsKept
            /\ clients' # clients =>
                   \E c \in ClientIds \ DOMAIN clients :
                       DOMAIN clients' = DOMAIN clients \cup {c} ]_vars

\* two clients are registered, the second after the first; a code of the
\* first has been redeemed and swept, and its refresh token revoked
C26_Witness ==
    /\ DOMAIN clients = {1, 2}
    /\ clients[1].redirect_uris # clients[2].redirect_uris
    /\ redeemed[1] >= 1
    /\ authorization_codes = EmptyDict
    /\ 1 \in DOMAIN refresh_tokens
    /\ refresh_tokens[1].revoked

\* C28: the comparisons of the client secret and of the PKCE challenge are
\* constant-time: whatever value of the same length had been supplied, the
\* comparison would have examined as many characters as the one that was
\* made, however many leading characters match the stored value.
C28_ConstantTime ==
    timing.site \in {"client_secret", "code_challenge"} =>
        \A other \in Texts :
            Len(other) = Len(timing.supplied) =>
                str_eq(timing.stored, other).steps = timing.steps

\* C29: of two authorize calls in progress at once, each exchanges only the
\* code that came with its own state, and a flow whose callback server
\* received its own code does not fail: the other flow's code neither
\* replaces nor displaces it.
C29_FlowReceivesOwnCode ==
    \A f \in ClientFlows :
        /\ flows[f].pc = "exchanged" => flows[f].exchanged = f
        /\ flows[f].received = f => flows[f].pc # "failed"

\* C30: authorize sends a code to the token endpoint only if the state
\* that came back with that code is the state the flow generated; holding a
\* code that came with another state, it fails and sends nothing.
C30_ExchangeOnlyOnOwnState ==
    [][ \A f \in ClientFlows :
            (flows[f].pc = "validate" /\ flows'[f] # flows[f]) =>
                /\ flows'[f].exchanged # None =>
                       StateOf(flows'[f].exchanged) = f
                /\ StateOf(flows[f].authorization_code) # f =>
                       /\ flows'[f].pc = "failed"
                       /\ flows'[f].exchanged = None ]_vars

\* a code value the authorize step never issued
UnknownCode == MaxCodes + 1

\* what the code store tells a redemption of the code: the value
\* get_authorization_code returns and the value mark_code_as_used returns
StoreOutcome(code) ==
    <<get_authorization_code(code), mark_code_as_used(code).ok>>

\* C31: the code store reports why a redemption fails, with distinct
\* outcomes for a code past its expiry, a code already used and an unknown
\* code value.
C31_DistinctReasons ==
    \A code \in DOMAIN authorization_codes :
        /\ ExpiredInStore(code) =>
               StoreOutcome(code) # StoreOutcome(UnknownCode)
        /\ authorization_codes[code].used =>
               StoreOutcome(code) # StoreOutcome(UnknownCode)

\* the code value is not in the store
NotFound(code) == code \notin DOMAIN authorization_codes

\* the code is stored with its used flag set
AlreadyUsed(code) ==
    code \in DOMAIN authorization_codes /\ authorization_codes[code].used

\* a code grant request of a client that passes client validation, with
\* all three of code, redirect_uri and code_verifier
Redeeming(form) ==
    /\ form.grant_type = "authorization_code"
    /\ Authenticated(form)
    /\ form.code # None /\ form.redirect_uri # None
    /\ form.code_verifier # None

\* C31 (amended): the code store reports that a redemption fails, not why:
\* get_authorization_code returns None and mark_code_as_used returns False,
\* leaving the store as it is, exactly when the code is past its expiry,
\* already used or unknown; a redemption of such a code is answered 400
\* "Invalid or expired authorization code", and a handler that loses the
\* race for the used flag is answered 400 "Authorization code already used
\* or expired".
C31_FailureWithoutReason ==
    /\ [](\A code \in CodeIds \cup {UnknownCode} :
             /\ (NotFound(code) \/ ExpiredInStore(code) \/ AlreadyUsed(code))
                    <=> StoreOutcome(code) = <<NoAuthCode, FALSE>>
             /\ ~mark_code_as_used(code).ok =>
                    mark_code_as_used(code).codes = authorization_codes)
    /\ [](\A form \in TokenRequests :
             (Redeeming(form) /\ StoreOutcome(form.code) = <<NoAuthCode, FALSE>>)
                 => token_endpoint(form) = HTTPException(400,
                        "Invalid or expired authorization code"))
    /\ [][ \A r \in InFlight :
              (token_mark_code(r) /\ ~mark_code_as_used(r.form.code).ok) =>
                  response'.body = HTTPException(400,
                      "Authorization code already used or expired") ]_vars

\* a handler found the used flag already set by the call it raced
C31_Witness ==
    /\ Responded("authorization_code", 400,
                 "Authorization code already used or expired")
    /\ AlreadyUsed(1)
    /\ ~ExpiredInStore(1)

\* C32: a stored authorization code is mutated once.  Its used flag only
\* goes from false to true, and only in the token step's mark_code_as_used
\* for that code; no step changes any other attribute of a code that stays
\* in the store.
C32_CodeMutatedOnce ==
    [][ \A code \in DOMAIN authorization_codes \cap DOMAIN authorization_codes' :
            /\ [authorization_codes'[code] EXCEPT
                   !.used = authorization_codes[code].used]
                   = authorization_codes[code]
            /\ authorization_codes[code].used => authorization_codes'[code].used
            /\ (~authorization_codes[code].used
                    /\ authorization_codes'[code].used) =>
                   \E r \in InFlight :
                       r.form.code = code /\ token_mark_code(r) ]_vars

\* the code has been redeemed once and is kept, used, past its expiry
C32_Witness ==
    /\ AlreadyUsed(1)
    /\ redeemed[1] = 1
    /\ ExpiredInStore(1)
    /\ 1 \in DOMAIN refresh_tokens

\* C33: the store never holds two unexpired, unused authorization codes of
\* one client.
C33_OneValidCodePerClient ==
    \A c \in DOMAIN authorization_codes, d \in DOMAIN authorization_codes :
        (/\ c # d
         /\ authorization_codes[c].client_id = authorization_codes[d].client_id
         /\ get_authorization_code(c) # NoAuthCode)
            => get_authorization_code(d) = NoAuthCode

\* C34: with the plain method verify_code_challenge accepts a verifier
\* exactly when it equals the challenge, and with a method that is neither
\* S256 nor plain it accepts no verifier for any challenge; the evaluation
\* that was made agrees.
C34_PlainAndUnknownMethods ==
    /\ \A v \in Strings, c \in Strings :
          /\ verify_code_challenge(v, c, "plain") <=> (v = c)
          /\ \A method \in MethodNames \ {"S256", "plain"} :
                ~verify_code_challenge(v, c, method)
    /\ (pkce.pc = "verified" /\ pkce.method = "plain") =>
          /\ pkce.code_challenge = pkce.code_verifier
          /\ pkce.verified
          /\ pkce.other_verified <=> (pkce.other_verifier = pkce.code_verifier)
    /\ (pkce.pc = "verified" /\ pkce.method \notin {"S256", "plain"}) =>
          (~pkce.verified /\ ~pkce.other_verified)

\* a plain challenge accepted the verifier it equals and rejected another
C34_Witness ==
    /\ pkce.pc = "verified"
    /\ pkce.method = "plain"
    /\ pkce.verified
    /\ pkce.other_verifier # pkce.code_challenge
    /\ ~pkce.other_verified

\* the details of the three binding checks of the code grant
BindingFailures ==
    {"Authorization code was issued to different client",
     "Redirect URI mismatch", "Invalid code_verifier"}

\* C35: the response to a redemption attempt that fails a binding check
\* (client_id, redirect_uri or code_verifier) comes with no change to the
\* code store or any other store, and the code it named is stored, unused and
\* unexpired, so that a request with the right parameters for the same code
\* passes every check and goes on to mark it.
C35_FailedBindingKeepsCode ==
    /\ [][ (response' # response
               /\ response'.grant_type = "authorization_code"
               /\ response'.body.detail \in BindingFailures) =>
               /\ authorization_codes' = authorization_codes
               /\ refresh_tokens' = refresh_tokens
               /\ clients' = clients
               /\ req' = req
               /\ response'.body.status = 400 ]_vars
    /\ [](\A form \in TokenRequests :
             token_endpoint(form).detail \in BindingFailures =>
                 /\ get_authorization_code(form.code) # NoAuthCode
                 /\ \A good \in TokenRequests :
                        Matching(good, form.code) =>
                            token_endpoint(good).status = 0)

\* a wrong code_verifier was refused and the code is still redeemable by a
\* request that is in the set of requests
C35_Witness ==
    /\ Responded("authorization_code", 400, "Invalid code_verifier")
    /\ get_authorization_code(1) # NoAuthCode
    /\ redeemed[1] = 0
    /\ \E good \in TokenRequests :
          Matching(good, 1) /\ token_endpoint(good).status = 0

ForeignRefresh(form) ==
    /\ form.grant_type = "refresh_token"
    /\ Authenticated(form)
    /\ form.refresh_token # None
    /\ get_refresh_token(form.refresh_token) # NoRefreshToken
    /\ get_refresh_token(form.refresh_token).client_id # form.client_id

\* C37: a refresh request whose client_id is not the refresh token's is
\* answered 400 without an access token, also when the requesting client is
\* registered and the token is stored, unexpired and unrevoked; and every
\* access token a refresh returns is made out to the token's client.
C37_RefreshBoundToClient ==
    /\ \A form \in TokenRequests :
          ForeignRefresh(form) =>
              /\ token_endpoint(form) = HTTPException(400,
                     "Refresh token was issued to different client")
              /\ token_endpoint(form).access_token = NoAccessToken
    /\ (response.grant_type = "refresh_token" /\ response.body.status = 200) =>
          \A t \in DOMAIN refresh_tokens :
              t = response.body.refresh_token =>
                  response.body.access_token.client_id =
                      refresh_tokens[t].client_id

\* the second registered client was refused the first client's token, which
\* is good
C37_Witness ==
    /\ Responded("refresh_token", 400,
                 "Refresh token was issued to different client")
    /\ DOMAIN clients = {1, 2}
    /\ get_refresh_token(1) # NoRefreshToken
    /\ \E form \in TokenRequests : ForeignRefresh(form)

\* C38: the sweeps agree with the lookups on expiry.  cleanup_expired_codes,
\* cleanup_expired_tokens and cleanup_all remove only records whose expiry
\* the lookup at the same clock value already rejects (now > expires_at),
\* and none that it still accepts, the boundary now = expires_at included.
C38_CleanupAgreesWithLookup ==
    [][ (cleanup_expired_codes \/ cleanup_expired_tokens \/ cleanup_all) =>
            /\ \A code \in DOMAIN authorization_codes \ DOMAIN authorization_codes' :
                  now > authorization_codes[code].expires_at
            /\ \A token \in DOMAIN refresh_tokens \ DOMAIN refresh_tokens' :
                  now > refresh_tokens[token].expires_at ]_vars

\* C39: no record is lost to a concurrent sweep: when cleanup_expired_codes
\* assigns the dict it built, every code in the store whose expiry is still
\* ahead, one stored since the sweep read the old dict included, is in the
\* store afterwards
C39_NoRecordLostToSweep ==
    [][ cleanup_expired_codes_assign =>
            \A code \in DOMAIN authorization_codes :
               authorization_codes[code].expires_at > now =>
                  code \in DOMAIN authorization_codes' ]_vars

\* the PKCE methods GET /.well-known/oauth-authorization-server advertises
code_challenge_methods_supported == {"S256"}

\* C40: the advertised capabilities match what the server accepts: no stored
\* authorization code has a code_challenge_method outside
\* code_challenge_methods_supported of the authorization-server metadata
C40_StoredMethodsAdvertised ==
    \A code \in DOMAIN authorization_codes :
       authorization_codes[code].code_challenge_method
          \in code_challenge_methods_supported


==============================================================================
